---- MODULE Spec2Model ----
(***************************************************************************)
(* The generative content cache of the agentic-security backend: the four  *)
(* services content_generator (item details), career_generator (career     *)
(* details), transition_planner (transition plans) and article_generator   *)
(* (articles), each with its own JSON store file, the text generation      *)
(* client they await, and the HTTP handlers that wrap them.                *)
(*                                                                         *)
(* A run exercises one service (the stores are separate files and the      *)
(* services share no state), chosen in Init.  Requests are coroutines of   *)
(* one asyncio event loop: the code between two awaits is one atomic step, *)
(* and the only await of a request is its call to chat_completion.         *)
(***************************************************************************)
EXTENDS Integers, Sequences, FiniteSets, TLC

\* ------------------------------------------------------------------ bounds
\* Requests issued in one run.
MaxReq == 2
\* Clock advances in one run.
MaxTicks == 1
\* Elements of a list the client answers with (career_path, steps).
MaxElems == 3
\* Lines of a text the client answers with.
MaxLines == 3

\* ------------------------------------------------------------- JSON values
\* A JSON value is a tagged record.  The text of a string is a sequence of
\* pieces, so that an f-string is the sequence of its parts.
Str(s) == [t |-> "str", v |-> <<s>>]
FStr(pieces) == [t |-> "str", v |-> pieces]
Num(n) == [t |-> "num", v |-> n]
Bool(b) == [t |-> "bool", v |-> b]
List(seq) == [t |-> "list", v |-> seq]
Obj(f) == [t |-> "obj", v |-> f]
EmptyObj == [t |-> "obj", v |-> <<>>]

IsObj(p) == p.t = "obj"
IsStr(x) == x.t = "str"
IsNum(x) == x.t = "num"
IsBool(x) == x.t = "bool"
IsList(x) == x.t = "list"
\* key in dict
Has(p, k) == k \in DOMAIN p.v
\* dict.get(key, default)
Get(p, k, d) == IF Has(p, k) THEN p.v[k] ELSE d
\* dict[key] = value
Put(p, k, x) == Obj([j \in (DOMAIN p.v) \cup {k} |-> IF j = k THEN x ELSE p.v[j]])
\* pydantic's check of a list[str] field with length bounds
IsStrList(x, lo, hi) == IsList(x) /\ Len(x.v) >= lo /\ Len(x.v) <= hi /\ \A i \in 1..Len(x.v) : IsStr(x.v[i])
\* a str holding U+D83D, a surrogate code point without its pair, as
\* json.loads returns it for the escape \ud83d
LoneSurrogate == "<U+D83D>"
\* str.encode("utf-8") accepts every string in the JSON value
RECURSIVE Encodable(_)
Encodable(x) ==
    CASE x.t = "str" -> (("v" \in DOMAIN x) => \A i \in DOMAIN x.v : x.v[i] # LoneSurrogate)
      [] x.t = "list" -> \A i \in DOMAIN x.v : Encodable(x.v[i])
      [] x.t = "obj" -> \A k \in DOMAIN x.v : k # LoneSurrogate /\ Encodable(x.v[k])
      [] OTHER -> TRUE
\* Python's None
None == [t |-> "None"]
\* the outcome of a call: a value, or an exception raised
Ok(x) == [ok |-> TRUE, val |-> x]
Raise(e) == [ok |-> FALSE, exc |-> e]

\* ------------------------------------------------------ the response text
\* A text is a sequence of lines; a line is a fence marker, blank, prose,
\* the serialization of one JSON document, or one of the two lines of a
\* document printed over two lines.
Fence == [k |-> "fence"]
Blank == [k |-> "blank"]
Prose(s) == [k |-> "prose", s |-> s]
Doc(x) == [k |-> "json", doc |-> x]
DocPart(x, i) == [k |-> "part", doc |-> x, i |-> i]
NotBlank(line) == line.k # "blank"

RECURSIVE LStrip(_)
LStrip(lines) == IF lines # <<>> /\ Head(lines).k = "blank" THEN LStrip(Tail(lines)) ELSE lines
RECURSIVE RStrip(_)
RStrip(lines) == IF lines # <<>> /\ lines[Len(lines)].k = "blank" THEN RStrip(SubSeq(lines, 1, Len(lines) - 1)) ELSE lines
\* str.strip()
Strip(lines) == RStrip(LStrip(lines))
\* cleaned.startswith("```")
StartsWithFence(lines) == lines # <<>> /\ lines[1].k = "fence"
\* a mutant of StripFences: the fence lines are left in the text
strip_fences_none(raw) == Strip(raw)
\* a mutant of StripFences: the last line is removed only when it is a
\* closing fence
strip_fences_closing(raw) ==
    LET cleaned == Strip(raw)
    IN  IF StartsWithFence(cleaned)
        THEN IF cleaned[Len(cleaned)].k = "fence" /\ Len(cleaned) > 1
             THEN Strip(SubSeq(cleaned, 2, Len(cleaned) - 1))
             ELSE Strip(SubSeq(cleaned, 2, Len(cleaned)))
        ELSE cleaned
\* raw.strip(), and for a fenced text "\n".join(lines[1:-1]).strip()
StripFences(raw) ==
    LET cleaned == Strip(raw)
    IN  IF StartsWithFence(cleaned) THEN Strip(SubSeq(cleaned, 2, Len(cleaned) - 1)) ELSE cleaned
\* json.loads: the document when the text is exactly one document (on one
\* line, or its two lines in order; whitespace around and between the tokens
\* is skipped), JSONDecodeError otherwise
JsonLoads(cleaned) ==
    LET tokens == SelectSeq(cleaned, NotBlank)
    IN  IF Len(tokens) = 1 /\ tokens[1].k = "json" THEN Ok(tokens[1].doc)
        ELSE IF Len(tokens) = 2 /\ tokens[1].k = "part" /\ tokens[2].k = "part"
                /\ tokens[1].i = 1 /\ tokens[2].i = 2 /\ tokens[1].doc = tokens[2].doc
        THEN Ok(tokens[1].doc)
        ELSE Raise("JSONDecodeError")

\* ---------------------------------------------------------- source entities
Category_GUARDRAILS == "guardrails"
Category_EVALS == "evals"
GUARDRAIL_ITEMS ==
    { [id |-> "prompt-injection-defense", title |-> "Prompt Injection Defense",
       short_description |-> "Detect and block adversarial instructions hidden in user inputs that attempt to override system prompts.",
       category |-> Category_GUARDRAILS] }
EVAL_ITEMS ==
    { [id |-> "groundedness", title |-> "Groundedness",
       short_description |-> "Measure how well the model's answers are supported by the provided context or retrieved documents.",
       category |-> Category_EVALS] }
ALL_ITEMS == GUARDRAIL_ITEMS \cup EVAL_ITEMS

\* ------------------------------------------------------------------- clock
CACHE_TTL_SECONDS == 10 * 24 * 60 * 60
\* time.time() when the run begins
StartOfTime == 2000 * CACHE_TTL_SECONDS
\* the amounts by which the clock advances between two steps
ClockSteps == {CACHE_TTL_SECONDS - 1, CACHE_TTL_SECONDS, CACHE_TTL_SECONDS + 1}

\* --------------------------------------------------------- the store file
Missing == [state |-> "missing"]
Corrupt == [state |-> "corrupt"]
Undecodable == [state |-> "undecodable"]
JsonFile(m) == [state |-> "json", map |-> m]
NoEntries == <<>>

\* _load_cache / _load_articles: {} when the file does not exist; read_text
\* decodes the bytes as UTF-8 and json.loads parses the text; the except
\* clause names json.JSONDecodeError and OSError, so a syntax error gives {}
\* and a UnicodeDecodeError (a ValueError that is neither) leaves the function
_load_cache(f) ==
    IF f.state = "missing" THEN Ok(NoEntries)
    ELSE IF f.state = "undecodable" THEN Raise("UnicodeDecodeError")
    ELSE IF f.state = "corrupt" THEN Ok(NoEntries)
    ELSE Ok(f.map)

\* a mutant of _save_cache: the write is skipped
save_cache_skip(prev, cache) == prev
\* a mutant of _save_cache: merges, the entries on disk taking precedence
save_cache_keep_existing(prev, cache) ==
    LET old == IF prev.state = "json" THEN prev.map ELSE NoEntries
    IN  JsonFile([k \in (DOMAIN old) \cup (DOMAIN cache) |-> IF k \in DOMAIN old THEN old[k] ELSE cache[k]])
\* a mutant of _save_cache: merges into the previous content
save_cache_merge(prev, cache) ==
    LET old == IF prev.state = "json" THEN prev.map ELSE NoEntries
    IN  JsonFile([k \in (DOMAIN old) \cup (DOMAIN cache) |-> IF k \in DOMAIN cache THEN cache[k] ELSE old[k]])
\* write_text raises UnicodeEncodeError: json.dumps(..., ensure_ascii=False)
\* leaves the strings as they are and the UTF-8 encoder refuses a surrogate
SaveRaises(cache) == \E k \in DOMAIN cache : ~Encodable(cache[k].data)
\* _save_cache / _save_articles: the file becomes the serialization of the
\* mapping, whatever it held.  write_text opens the file for writing, which
\* empties it, and then encodes the text: when the encoder raises, the file
\* stays empty, which is text that is not JSON
_save_cache(prev, cache) == IF SaveRaises(cache) THEN Corrupt ELSE JsonFile(cache)

\* a mutant of _is_entry_valid: the ten days are not converted to seconds
is_entry_valid_days(entry, now) == (now - entry.cached_at) < 10
\* _is_entry_valid: entries the services write always carry cached_at
_is_entry_valid(entry, now) == (now - entry.cached_at) < CACHE_TTL_SECONDS

\* a mutant of SetEntry: cache.setdefault(cache_key, ...)
SetEntry_ifabsent(cache, key, entry) ==
    [k \in (DOMAIN cache) \cup {key} |-> IF k \in DOMAIN cache THEN cache[k] ELSE entry]
\* cache[cache_key] = {"cached_at": ..., "data": ...}
SetEntry(cache, key, entry) == [k \in (DOMAIN cache) \cup {key} |-> IF k = key THEN entry ELSE cache[k]]
\* a mutant of DelEntry: articles.clear()
DelEntry_clear(cache, key) == NoEntries
\* del articles[article_id]
DelEntry(cache, key) == [k \in (DOMAIN cache) \ {key} |-> cache[k]]

\* ------------------------------------------- content_generator: item detail
\* cache_key = f"{item.category.value}:{item.id}"
ItemCacheKey(item) == item.category \o ":" \o item.id

DefaultImplementationSteps == List(<<Str("Step 1"), Str("Step 2"), Str("Step 3"), Str("Step 4"), Str("Step 5")>>)
DefaultRisks == List(<<Str("Risk 1"), Str("Risk 2"), Str("Risk 3")>>)
DefaultMetrics == List(<<Str("Metric 1"), Str("Metric 2"), Str("Metric 3")>>)

\* Example(**ex): title and scenario are required strings, code_snippet
\* defaults to ""
ExampleValid(ex) ==
    /\ IsObj(ex)
    /\ Has(ex, "title") /\ IsStr(ex.v["title"])
    /\ Has(ex, "scenario") /\ IsStr(ex.v["scenario"])
    /\ (Has(ex, "code_snippet") => IsStr(ex.v["code_snippet"]))
Example(ex) ==
    [title |-> ex.v["title"], scenario |-> ex.v["scenario"], code_snippet |-> Get(ex, "code_snippet", Str(""))]

\* ItemDetail(...): pydantic validates every field
ItemDetailValid(d) ==
    /\ IsStr(d.overview)
    /\ IsStr(d.why_it_matters)
    /\ IsStrList(d.implementation_steps, 5, 8)
    /\ IsStrList(d.risks_and_pitfalls, 3, 6)
    /\ IsStrList(d.metrics_or_checks, 3, 6)

\* a mutant of _entry_to_detail: ItemDetail.model_construct(...), which
\* builds the entity without validating its fields
entry_to_detail_unvalidated(payload, item) ==
    IF ~IsObj(payload) THEN Raise("AttributeError")
    ELSE Ok([id |-> item.id, title |-> item.title, category |-> item.category,
             overview |-> Get(payload, "overview", Str("")),
             why_it_matters |-> Get(payload, "why_it_matters", Str("")),
             implementation_steps |-> Get(payload, "implementation_steps", DefaultImplementationSteps),
             examples |-> <<>>,
             risks_and_pitfalls |-> Get(payload, "risks_and_pitfalls", DefaultRisks),
             metrics_or_checks |-> Get(payload, "metrics_or_checks", DefaultMetrics)])
\* _entry_to_detail: payload.get(...) needs a dict; the examples are built
\* first, then ItemDetail validates
_entry_to_detail(payload, item) ==
    IF ~IsObj(payload) THEN Raise("AttributeError")
    ELSE LET examples == Get(payload, "examples", List(<<>>))
             d == [id |-> item.id, title |-> item.title, category |-> item.category,
                   overview |-> Get(payload, "overview", Str("")),
                   why_it_matters |-> Get(payload, "why_it_matters", Str("")),
                   implementation_steps |-> Get(payload, "implementation_steps", DefaultImplementationSteps),
                   risks_and_pitfalls |-> Get(payload, "risks_and_pitfalls", DefaultRisks),
                   metrics_or_checks |-> Get(payload, "metrics_or_checks", DefaultMetrics)]
         IN  IF ~IsList(examples) THEN Raise("TypeError")
             ELSE IF \E i \in 1..Len(examples.v) : ~IsObj(examples.v[i]) THEN Raise("TypeError")
             ELSE IF \E i \in 1..Len(examples.v) : ~ExampleValid(examples.v[i]) THEN Raise("ValidationError")
             ELSE IF ~ItemDetailValid(d) THEN Raise("ValidationError")
             ELSE Ok([id |-> d.id, title |-> d.title, category |-> d.category,
                      overview |-> d.overview, why_it_matters |-> d.why_it_matters,
                      implementation_steps |-> d.implementation_steps,
                      examples |-> [i \in 1..Len(examples.v) |-> Example(examples.v[i])],
                      risks_and_pitfalls |-> d.risks_and_pitfalls,
                      metrics_or_checks |-> d.metrics_or_checks])

\* _fallback_payload(item)
ItemFallbackPayload(item) ==
    Obj([overview |-> FStr(<<item.title, ": ", item.short_description>>),
         why_it_matters |-> Str("This is a critical component of agentic security that helps protect AI systems."),
         implementation_steps |-> List(<<Str("Identify the scope and requirements"),
                                         Str("Design the architecture and integration points"),
                                         Str("Implement core logic"),
                                         Str("Add configuration and policy controls"),
                                         Str("Write unit and integration tests")>>),
         examples |-> List(<<>>),
         risks_and_pitfalls |-> List(<<Str("Incomplete coverage may leave gaps"),
                                       Str("Over-aggressive rules can block legitimate use"),
                                       Str("Maintenance burden increases with complexity")>>),
         metrics_or_checks |-> List(<<Str("Coverage percentage of protected surfaces"),
                                      Str("False-positive rate"),
                                      Str("Mean time to detection")>>)])

\* ----------------------------------------- career_generator: career detail
\* (the em dash of the first description is written as a hyphen)
PROFESSIONS ==
    { [id |-> "software-engineer", title |-> "Software Engineer",
       short_description |-> "Design, build, and maintain software systems that power the modern world - from mobile apps to cloud infrastructure."],
      [id |-> "data-scientist", title |-> "Data Scientist",
       short_description |-> "Extract insights from complex datasets using statistics, machine learning, and domain expertise to drive business decisions."] }
SoftwareEngineer == CHOOSE p \in PROFESSIONS : p.id = "software-engineer"
DataScientist == CHOOSE p \in PROFESSIONS : p.id = "data-scientist"

REGION_CONTEXT == {"usa", "india"}
DEFAULT_REGION == "usa"
\* str.lower() on the region strings a request can carry
Lower(s) == CASE s = "USA" -> "usa" [] s = "India" -> "india" [] s = "INDIA" -> "india" [] OTHER -> s
\* a mutant of NormalizeRegion: the region is not lowered before it is
\* looked up in REGION_CONTEXT
normalize_region_nolower(region) ==
    IF region = "" \/ region \notin REGION_CONTEXT THEN DEFAULT_REGION ELSE region
\* region = region.lower() if region else DEFAULT_REGION;
\* if region not in REGION_CONTEXT: region = DEFAULT_REGION
NormalizeRegion(region) ==
    LET lowered == IF region # "" THEN Lower(region) ELSE DEFAULT_REGION
    IN  IF lowered \notin REGION_CONTEXT THEN DEFAULT_REGION ELSE lowered
\* a mutant of CareerCacheKey: the region is left out of the key
career_cache_key_noregion(profession, region) == profession.id
\* a mutant of CareerCacheKey: the region as the request carried it
career_cache_key_raw(profession, region) == profession.id \o "__" \o region
\* cache_key = f"{profession.id}__{region}", region normalized
CareerCacheKey(profession, region) == profession.id \o "__" \o NormalizeRegion(region)
\* _image_url_for(profession_id)
image_url_for(profession_id) == <<"/api/v1/careers/", profession_id, "/image">>

DefaultCareerPath ==
    List(<<Obj([stage |-> Str("Entry Level"), years |-> Str("0-2 years"), description |-> Str("Starting position")]),
           Obj([stage |-> Str("Mid Level"), years |-> Str("3-5 years"), description |-> Str("Growing responsibilities")]),
           Obj([stage |-> Str("Senior Level"), years |-> Str("6-10 years"), description |-> Str("Leadership and mentoring")]),
           Obj([stage |-> Str("Expert / Director"), years |-> Str("10+ years"), description |-> Str("Strategic direction")])>>)
DefaultKeySkills == List(<<Str("Skill 1"), Str("Skill 2"), Str("Skill 3"), Str("Skill 4"), Str("Skill 5")>>)
DefaultPros == List(<<Str("Great career growth"), Str("Competitive salary"), Str("Meaningful work")>>)
DefaultCons == List(<<Str("Can be stressful"), Str("Requires continuous learning"), Str("Work-life balance challenges")>>)

\* CareerPathStage(**stage): three required strings
CareerPathStageValid(st) ==
    /\ IsObj(st)
    /\ \A k \in {"stage", "years", "description"} : Has(st, k) /\ IsStr(st.v[k])
CareerPathStage(st) == [stage |-> st.v["stage"], years |-> st.v["years"], description |-> st.v["description"]]

\* CareerDetail(...): pydantic validates every field
CareerDetailValid(d) ==
    /\ IsStr(d.overview)
    /\ IsStr(d.salary_range)
    /\ IsStrList(d.key_skills, 5, 10)
    /\ IsStr(d.education_requirements)
    /\ IsStr(d.day_in_the_life)
    /\ IsStrList(d.pros, 3, 7)
    /\ IsStrList(d.cons, 3, 6)
    /\ IsStr(d.future_outlook)

\* _payload_to_detail(payload, profession, image_url)
_payload_to_detail(payload, profession, image_url) ==
    IF ~IsObj(payload) THEN Raise("AttributeError")
    ELSE LET path == Get(payload, "career_path", DefaultCareerPath)
             d == [overview |-> Get(payload, "overview", Str(profession.short_description)),
                   salary_range |-> Get(payload, "salary_range", Str("Varies by experience and location")),
                   key_skills |-> Get(payload, "key_skills", DefaultKeySkills),
                   education_requirements |-> Get(payload, "education_requirements", Str("Varies by specialization.")),
                   day_in_the_life |-> Get(payload, "day_in_the_life", Str("A typical day involves a variety of tasks and responsibilities.")),
                   pros |-> Get(payload, "pros", DefaultPros),
                   cons |-> Get(payload, "cons", DefaultCons),
                   future_outlook |-> Get(payload, "future_outlook", Str("The outlook for this profession remains positive."))]
         IN  IF ~IsList(path) THEN Raise("TypeError")
             ELSE IF \E i \in 1..Len(path.v) : ~IsObj(path.v[i]) THEN Raise("TypeError")
             ELSE IF \E i \in 1..Len(path.v) : ~CareerPathStageValid(path.v[i]) THEN Raise("ValidationError")
             ELSE IF ~CareerDetailValid(d) THEN Raise("ValidationError")
             ELSE Ok([id |-> profession.id, title |-> profession.title,
                      overview |-> d.overview, salary_range |-> d.salary_range,
                      key_skills |-> d.key_skills,
                      education_requirements |-> d.education_requirements,
                      career_path |-> [i \in 1..Len(path.v) |-> CareerPathStage(path.v[i])],
                      day_in_the_life |-> d.day_in_the_life,
                      pros |-> d.pros, cons |-> d.cons,
                      future_outlook |-> d.future_outlook,
                      image_url |-> image_url])

\* _fallback_payload(profession)
CareerFallbackPayload(profession) ==
    Obj([overview |-> Str(profession.short_description),
         salary_range |-> Str("Varies by experience and location"),
         key_skills |-> List(<<Str("Communication"), Str("Problem-Solving"), Str("Critical Thinking"), Str("Adaptability"), Str("Teamwork")>>),
         education_requirements |-> Str("Typically requires a bachelor's degree in a relevant field."),
         career_path |-> List(<<
            Obj([stage |-> Str("Entry Level"), years |-> Str("0-2 years"), description |-> Str("Learning fundamentals and building skills.")]),
            Obj([stage |-> Str("Mid Level"), years |-> Str("3-5 years"), description |-> Str("Taking on more responsibility and specializing.")]),
            Obj([stage |-> Str("Senior Level"), years |-> Str("6-10 years"), description |-> Str("Leading projects and mentoring others.")]),
            Obj([stage |-> Str("Expert / Director"), years |-> Str("10+ years"), description |-> Str("Setting strategic direction.")])>>),
         day_in_the_life |-> FStr(<<"A day as a ", profession.title, " involves a mix of focused work, collaboration, and continuous learning.">>),
         pros |-> List(<<Str("Rewarding work"), Str("Good compensation"), Str("Growth opportunities")>>),
         cons |-> List(<<Str("Can be demanding"), Str("Requires continuous learning"), Str("Competitive field")>>),
         future_outlook |-> FStr(<<"The demand for ", profession.title, " professionals is expected to remain strong.">>)])

\* ------------------------------------ transition_planner: transition plan
\* cache_key = f"{source.id}__to__{target.id}"
TransitionCacheKey(source, target) == source.id \o "__to__" \o target.id

DefaultTips ==
    List(<<Str("Leverage your transferable skills from your current role."),
           Str("Network with professionals already in the target field."),
           Str("Start with small projects to build portfolio evidence.")>>)

\* TransitionStep(**s): the schema is not part of the sources; the fields are
\* those the prompt asks for and the fallback payload carries
TransitionStepValid(s) ==
    /\ IsObj(s)
    /\ Has(s, "order") /\ IsNum(s.v["order"])
    /\ \A k \in {"title", "category", "duration", "description"} : Has(s, k) /\ IsStr(s.v[k])
    /\ (Has(s, "resources") => IsStrList(s.v["resources"], 0, Len(s.v["resources"].v)))
    /\ (Has(s, "priority") => IsStr(s.v["priority"]))
\* TransitionPlan(...): three strings, the steps, a list of tips
TransitionPlanValid(d) ==
    /\ IsStr(d.summary)
    /\ IsStr(d.estimated_duration)
    /\ IsStr(d.difficulty)
    /\ IsList(d.tips) /\ \A i \in 1..Len(d.tips.v) : IsStr(d.tips.v[i])

\* a mutant of TransitionSteps: no try around TransitionStep(**s), the first
\* element that does not convert ends the assembly
TransitionSteps_failfast(steps_raw) ==
    IF IsList(steps_raw)
    THEN IF \E i \in 1..Len(steps_raw.v) : ~TransitionStepValid(steps_raw.v[i])
         THEN Raise("ValidationError")
         ELSE Ok(steps_raw.v)
    ELSE IF IsStr(steps_raw) \/ IsObj(steps_raw) THEN Ok(<<>>)
    ELSE Raise("TypeError")
\* for s in steps_raw: try: steps.append(TransitionStep(**s)) except: skip.
\* A list is filtered; the characters of a string and the keys of a dict are
\* all skipped; any other value is not iterable.
TransitionSteps(steps_raw) ==
    IF IsList(steps_raw) THEN Ok(SelectSeq(steps_raw.v, TransitionStepValid))
    ELSE IF IsStr(steps_raw) \/ IsObj(steps_raw) THEN Ok(<<>>)
    ELSE Raise("TypeError")

\* a mutant of _payload_to_plan: payload["summary"] instead of
\* payload.get("summary", ...), a KeyError when the key is missing
payload_to_plan_required(payload, source, target) ==
    IF ~IsObj(payload) THEN Raise("AttributeError")
    ELSE IF ~Has(payload, "summary") THEN Raise("KeyError")
    ELSE Ok([source_id |-> source.id, source_title |-> source.title,
             target_id |-> target.id, target_title |-> target.title,
             summary |-> payload.v["summary"],
             estimated_duration |-> Get(payload, "estimated_duration", Str("1-2 years")),
             difficulty |-> Get(payload, "difficulty", Str("moderate")),
             steps |-> TransitionSteps(Get(payload, "steps", List(<<>>))).val,
             tips |-> Get(payload, "tips", DefaultTips)])
\* _payload_to_plan(payload, source, target)
_payload_to_plan(payload, source, target) ==
    IF ~IsObj(payload) THEN Raise("AttributeError")
    ELSE LET steps == TransitionSteps(Get(payload, "steps", List(<<>>)))
             d == [summary |-> Get(payload, "summary", FStr(<<"Transition from ", source.title, " to ", target.title, ".">>)),
                   estimated_duration |-> Get(payload, "estimated_duration", Str("1-2 years")),
                   difficulty |-> Get(payload, "difficulty", Str("moderate")),
                   tips |-> Get(payload, "tips", DefaultTips)]
         IN  IF ~steps.ok THEN steps
             ELSE IF ~TransitionPlanValid(d) THEN Raise("ValidationError")
             ELSE Ok([source_id |-> source.id, source_title |-> source.title,
                      target_id |-> target.id, target_title |-> target.title,
                      summary |-> d.summary, estimated_duration |-> d.estimated_duration,
                      difficulty |-> d.difficulty, steps |-> steps.val, tips |-> d.tips])

FallbackStep(order, title, category, duration, description, resources, priority) ==
    Obj([order |-> Num(order), title |-> Str(title), category |-> Str(category), duration |-> Str(duration),
         description |-> Str(description), resources |-> List(resources), priority |-> Str(priority)])
\* _fallback_payload(source, target)
TransitionFallbackPayload(source, target) ==
    Obj([summary |-> FStr(<<"Transitioning from ", source.title, " to ", target.title,
                           " requires learning new skills while leveraging your existing experience.">>),
         estimated_duration |-> Str("1-2 years"),
         difficulty |-> Str("moderate"),
         steps |-> List(<<
            FallbackStep(1, "Assess Transferable Skills", "Skill", "1-2 weeks",
                         "Identify skills from your current role that transfer to the new career.",
                         <<Str("LinkedIn Skills Assessment")>>, "required"),
            FallbackStep(2, "Research the Target Field", "Education", "2-4 weeks",
                         "Learn about the day-to-day, required qualifications, and job market for the target profession.",
                         <<Str("Bureau of Labor Statistics"), Str("LinkedIn Career Explorer")>>, "required"),
            FallbackStep(3, "Build Foundation Skills", "Course", "3-6 months",
                         "Take courses to build the core skills required for the new profession.",
                         <<Str("Coursera"), Str("Udemy"), Str("edX")>>, "required"),
            FallbackStep(4, "Earn a Relevant Certification", "Certification", "2-4 months",
                         "Get certified to validate your new skills and improve your resume.",
                         <<>>, "recommended"),
            FallbackStep(5, "Build a Portfolio", "Portfolio", "2-3 months",
                         "Create projects that demonstrate your new skills to potential employers.",
                         <<Str("GitHub"), Str("Personal Website")>>, "required"),
            FallbackStep(6, "Network in the New Field", "Networking", "Ongoing",
                         "Attend meetups, conferences, and connect with professionals in your target field.",
                         <<Str("LinkedIn"), Str("Meetup.com")>>, "recommended")>>),
         tips |-> List(<<Str("Start small - take on side projects before making the full switch."),
                         Str("Find a mentor in the target profession."),
                         Str("Update your resume to highlight transferable skills.")>>)])

\* ------------------------------------------- article_generator: articles
\* the topics a request can carry, and the values str(uuid.uuid4())[:8] takes
TOPICS == {"Zero Trust for Agents"}
UUIDS == {"3f2a9c1e", "b7d04e55"}
\* datetime.now(timezone.utc).isoformat()
IsoFormat(now) == [t |-> "str", iso |-> now]

\* ArticleSection(**s)
ArticleSectionValid(x) == IsObj(x) /\ \A k \in {"heading", "body"} : Has(x, k) /\ IsStr(x.v[k])
ArticleSection(x) == Obj([heading |-> x.v["heading"], body |-> x.v["body"]])
\* DiagramNode(**n)
DiagramNodeValid(x) ==
    /\ IsObj(x)
    /\ \A k \in {"id", "label"} : Has(x, k) /\ IsStr(x.v[k])
    /\ \A k \in {"x", "y"} : Has(x, k) /\ IsNum(x.v[k])
    /\ \A k \in {"description", "node_type"} : Has(x, k) => IsStr(x.v[k])
DiagramNode(x) ==
    Obj([id |-> x.v["id"], label |-> x.v["label"], description |-> Get(x, "description", Str("")),
         x |-> x.v["x"], y |-> x.v["y"], node_type |-> Get(x, "node_type", Str("default"))])
\* DiagramEdge(**e)
DiagramEdgeValid(x) ==
    /\ IsObj(x)
    /\ \A k \in {"id", "source", "target"} : Has(x, k) /\ IsStr(x.v[k])
    /\ \A k \in {"label", "edge_type"} : Has(x, k) => IsStr(x.v[k])
    /\ (Has(x, "animated") => IsBool(x.v["animated"]))
DiagramEdge(x) ==
    Obj([id |-> x.v["id"], source |-> x.v["source"], target |-> x.v["target"], label |-> Get(x, "label", Str("")),
         animated |-> Get(x, "animated", Bool(TRUE)), edge_type |-> Get(x, "edge_type", Str("smoothstep"))])

\* [Model(**x) for x in value]: every element must be a mapping the model
\* accepts
AllObj(value) == IsList(value) /\ \A i \in 1..Len(value.v) : IsObj(value.v[i])
AllSectionsValid(value) == \A i \in 1..Len(value.v) : ArticleSectionValid(value.v[i])
AllNodesValid(value) == \A i \in 1..Len(value.v) : DiagramNodeValid(value.v[i])
AllEdgesValid(value) == \A i \in 1..Len(value.v) : DiagramEdgeValid(value.v[i])

\* Article(...) as generate_article builds it from the payload
BuildArticle(payload, topic, article_id, now) ==
    IF ~IsObj(payload) THEN Raise("AttributeError")
    ELSE LET sections == Get(payload, "sections", List(<<>>))
             nodes == Get(payload, "diagram_nodes", List(<<>>))
             edges == Get(payload, "diagram_edges", List(<<>>))
             title == Get(payload, "title", Str(topic))
             subtitle == Get(payload, "subtitle", Str(""))
             conclusion == Get(payload, "conclusion", Str(""))
         IN  IF ~AllObj(sections) THEN Raise("TypeError")
             ELSE IF ~AllSectionsValid(sections) THEN Raise("ValidationError")
             ELSE IF ~AllObj(nodes) THEN Raise("TypeError")
             ELSE IF ~AllNodesValid(nodes) THEN Raise("ValidationError")
             ELSE IF ~AllObj(edges) THEN Raise("TypeError")
             ELSE IF ~AllEdgesValid(edges) THEN Raise("ValidationError")
             ELSE IF ~(IsStr(title) /\ IsStr(subtitle) /\ IsStr(conclusion)) THEN Raise("ValidationError")
             ELSE Ok([id |-> Str(article_id), topic |-> Str(topic), title |-> title, subtitle |-> subtitle,
                      sections |-> IF sections.v # <<>>
                                   THEN List([i \in 1..Len(sections.v) |-> ArticleSection(sections.v[i])])
                                   ELSE List(<<Obj([heading |-> Str("Introduction"),
                                                    body |-> FStr(<<"An exploration of ", topic, ".">>)])>>),
                      diagram_nodes |-> List([i \in 1..Len(nodes.v) |-> DiagramNode(nodes.v[i])]),
                      diagram_edges |-> List([i \in 1..Len(edges.v) |-> DiagramEdge(edges.v[i])]),
                      conclusion |-> conclusion, created_at |-> IsoFormat(now)])

\* article.model_dump()
model_dump(article) == Obj(article)
ArticleFields == {"id", "topic", "title", "subtitle", "sections", "diagram_nodes", "diagram_edges", "conclusion", "created_at"}
\* Article(**entry["data"]) as get_article builds it from stored data
ArticleFromData(data) ==
    IF ~IsObj(data) THEN Raise("TypeError")
    ELSE IF \E k \in {"id", "topic", "title", "subtitle", "sections", "conclusion", "created_at"} : ~Has(data, k)
         THEN Raise("ValidationError")
    ELSE IF \E k \in {"id", "topic", "title", "subtitle", "conclusion", "created_at"} : ~IsStr(data.v[k])
         THEN Raise("ValidationError")
    ELSE LET sections == data.v["sections"]
             nodes == Get(data, "diagram_nodes", List(<<>>))
             edges == Get(data, "diagram_edges", List(<<>>))
         IN  IF ~(AllObj(sections) /\ AllObj(nodes) /\ AllObj(edges)) THEN Raise("ValidationError")
             ELSE IF ~(AllSectionsValid(sections) /\ AllNodesValid(nodes) /\ AllEdgesValid(edges)) THEN Raise("ValidationError")
             ELSE Ok([id |-> data.v["id"], topic |-> data.v["topic"], title |-> data.v["title"],
                      subtitle |-> data.v["subtitle"],
                      sections |-> List([i \in 1..Len(sections.v) |-> ArticleSection(sections.v[i])]),
                      diagram_nodes |-> List([i \in 1..Len(nodes.v) |-> DiagramNode(nodes.v[i])]),
                      diagram_edges |-> List([i \in 1..Len(edges.v) |-> DiagramEdge(edges.v[i])]),
                      conclusion |-> data.v["conclusion"], created_at |-> data.v["created_at"]])

FallbackNode(id, label, description, x, y, node_type) ==
    Obj([id |-> Str(id), label |-> Str(label), description |-> Str(description), x |-> Num(x), y |-> Num(y),
         node_type |-> Str(node_type)])
FallbackEdge(id, source, target, label) ==
    Obj([id |-> Str(id), source |-> Str(source), target |-> Str(target), label |-> Str(label),
         animated |-> Bool(TRUE), edge_type |-> Str("smoothstep")])
\* _fallback_payload(topic)
ArticleFallbackPayload(topic) ==
    Obj([title |-> FStr(<<"Understanding ", topic>>),
         subtitle |-> FStr(<<"A deep dive into ", topic, " and why it matters.">>),
         sections |-> List(<<
            Obj([heading |-> Str("Introduction"),
                 body |-> FStr(<<"In this article, we explore **", topic, "** and its significance in modern software engineering.">>)]),
            Obj([heading |-> Str("Core Concepts"),
                 body |-> FStr(<<"The fundamental ideas behind ", topic, " include several key principles that practitioners should understand.">>)]),
            Obj([heading |-> Str("Implementation"),
                 body |-> FStr(<<"Implementing ", topic, " requires careful planning and a structured approach.">>)]),
            Obj([heading |-> Str("Best Practices"),
                 body |-> FStr(<<"When working with ", topic, ", following established best practices ensures reliable outcomes.">>)])>>),
         conclusion |-> FStr(<<"Understanding ", topic, " is essential for building robust systems. The key takeaway is to start small, iterate, and measure your progress.">>),
         diagram_nodes |-> List(<<
            FallbackNode("node_1", "Start", "Entry point for the system", 50, 50, "input"),
            FallbackNode("node_2", "Validate Input", "Checks and sanitizes incoming data", 300, 50, "default"),
            FallbackNode("node_3", "Process", "Core processing logic", 550, 50, "default"),
            FallbackNode("node_4", "Output", "Returns the final result", 800, 50, "output")>>),
         diagram_edges |-> List(<<
            FallbackEdge("edge_1_2", "node_1", "node_2", "raw input"),
            FallbackEdge("edge_2_3", "node_2", "node_3", "validated data"),
            FallbackEdge("edge_3_4", "node_3", "node_4", "result")>>)])

\* ------------------------------------------------ the generation client
\* what client.chat.completions.create can raise
ClientErrors == {"RateLimitError: quota exceeded", "APIConnectionError: connection refused"}
\* documents the model can answer with
OverviewOnly == Obj([overview |-> Str("x")])
IllTyped ==
    Obj([overview |-> Str("y"),
         implementation_steps |-> List(<<Str("only"), Str("two")>>),
         key_skills |-> List(<<Str("one")>>),
         tips |-> Num(3),
         sections |-> Str("none")])
NotAnObject == List(<<Str("overview")>>)
\* response.choices[0].message.content or "": the texts chat_completion returns
Responses ==
    { <<Doc(OverviewOnly)>>,
      <<Blank, Fence, Doc(OverviewOnly), Fence, Blank>>,
      <<Prose("I'm sorry, I can't produce that.")>>,
      <<Prose("Here is the JSON you asked for:"), Doc(OverviewOnly)>>,
      <<Fence, Doc(OverviewOnly)>>,
      <<>>,
      <<Doc(IllTyped)>>,
      <<Doc(NotAnObject)>> }

\* ------------------------------------------------------- the HTTP handlers
\* the message of each handler's except branch (the sources hold no route
\* for generate_transition_plan)
GenericMessage(svc) ==
    CASE svc = "content_generator" -> "Failed to generate item detail"
      [] svc = "career_generator" -> "Failed to generate career detail"
      [] svc = "article_generator" -> "Failed to generate article"
\* a mutant of HttpResponse: the exception text is dropped
HttpResponse_nodetails(svc, result) ==
    IF result.ok THEN [status |-> 200, success |-> TRUE, data |-> result.val]
    ELSE [status |-> 500, success |-> FALSE, message |-> GenericMessage(svc), details |-> ""]
\* try: detail = await generate_...(...); return ApiResponse(success=True, ...)
\* except Exception as exc: raise HTTPException(500, ... details=str(exc))
HttpResponse(svc, result) ==
    IF result.ok THEN [status |-> 200, success |-> TRUE, data |-> result.val]
    ELSE [status |-> 500, success |-> FALSE, message |-> GenericMessage(svc), details |-> result.exc]

\* get_article_endpoint: 404 when get_article returns None; an exception of
\* get_article is not caught and becomes the framework's bare 500
get_article_endpoint(article_id, result) ==
    IF ~result.ok THEN [status |-> 500, success |-> FALSE, message |-> "Internal Server Error", details |-> ""]
    ELSE IF result.val = None
    THEN [status |-> 404, success |-> FALSE, message |-> <<"Article '", article_id, "' not found">>, details |-> ""]
    ELSE [status |-> 200, success |-> TRUE, data |-> result.val]

\* ------------------------------------------------------------------ state
VARIABLES
    service,   \* the service module this run's requests go to
    file,      \* that service's store file
    clock,     \* time.time()
    ticks,     \* clock advances so far
    nsaves,    \* writes of the store file so far
    reqs       \* the requests: position, locals, and what each one did
vars == <<service, file, clock, ticks, nsaves, reqs>>

Services == {"content_generator", "career_generator", "transition_planner", "article_generator"}
KeyedServices == {"content_generator", "career_generator", "transition_planner"}
Requests == 1..MaxReq

Null == [t |-> "null"]
Pending == [ok |-> FALSE, exc |-> "pending"]
NoCtx == [op |-> "none"]
NoResponse == [status |-> 0]
Idle ==
    [pc |-> "idle", ctx |-> NoCtx, key |-> "", cache |-> NoEntries, saw |-> "nothing", at |-> 0,
     after |-> {}, loaded |-> FALSE, calls |-> 0, hit |-> FALSE, stale |-> FALSE, failure |-> "", raw |-> <<>>,
     fallback |-> FALSE,
     payload |-> Null, result |-> Pending, response |-> NoResponse, loaded_at |-> 0, wrote_at |-> 0, done_at |-> 0]

\* the request contexts of each service
ItemContexts == {[op |-> "generate_item_detail", item |-> i] : i \in ALL_ITEMS}
RegionInputs == {"usa", "INDIA", ""}
CareerContexts ==
    {[op |-> "generate_career_detail", profession |-> SoftwareEngineer, region |-> g,
      image_url |-> image_url_for(SoftwareEngineer.id)] : g \in RegionInputs}
TransitionContexts ==
    {[op |-> "generate_transition_plan", source |-> a, target |-> b] : <<a, b>> \in {<<SoftwareEngineer, DataScientist>>, <<DataScientist, SoftwareEngineer>>}}
ArticleContexts == {[op |-> "generate_article", topic |-> tp] : tp \in TOPICS}
GetArticleContexts == {[op |-> "get_article", article_id |-> id] : id \in UUIDS}

\* the cache key a context derives
CacheKey(ctx) ==
    CASE ctx.op = "generate_item_detail" -> ItemCacheKey(ctx.item)
      [] ctx.op = "generate_career_detail" -> CareerCacheKey(ctx.profession, ctx.region)
      [] ctx.op = "generate_transition_plan" -> TransitionCacheKey(ctx.source, ctx.target)
      [] ctx.op = "get_article" -> ctx.article_id
      [] OTHER -> ""
\* a mutant of Assemble: the identity fields are passed first and the payload
\* spread over them, ItemDetail(**{**identity, **payload})
Assemble_payload_last(ctx, payload) ==
    LET a == CASE ctx.op = "generate_item_detail" -> _entry_to_detail(payload, ctx.item)
               [] ctx.op = "generate_career_detail" -> _payload_to_detail(payload, ctx.profession, ctx.image_url)
               [] ctx.op = "generate_transition_plan" -> _payload_to_plan(payload, ctx.source, ctx.target)
               [] OTHER -> Raise("TypeError")
    IN  IF a.ok /\ ctx.op = "generate_item_detail" /\ Has(payload, "id")
        THEN Ok([a.val EXCEPT !.id = payload.v["id"].v[1]])
        ELSE a
\* the assembler of a context's service, applied to a payload
Assemble(ctx, payload) ==
    CASE ctx.op = "generate_item_detail" -> _entry_to_detail(payload, ctx.item)
      [] ctx.op = "generate_career_detail" -> _payload_to_detail(payload, ctx.profession, ctx.image_url)
      [] ctx.op = "generate_transition_plan" -> _payload_to_plan(payload, ctx.source, ctx.target)
      [] OTHER -> Raise("TypeError")
\* the fallback payload of a context's service
FallbackPayload(ctx) ==
    CASE ctx.op = "generate_item_detail" -> ItemFallbackPayload(ctx.item)
      [] ctx.op = "generate_career_detail" -> CareerFallbackPayload(ctx.profession)
      [] ctx.op = "generate_transition_plan" -> TransitionFallbackPayload(ctx.source, ctx.target)
      [] OTHER -> ArticleFallbackPayload(ctx.topic)

\* a store file an earlier process left behind: one entry, written at
\* StartOfTime from the fallback payload
SeedContext(svc) ==
    CASE svc = "content_generator" -> CHOOSE c \in ItemContexts : c.item.id = "prompt-injection-defense"
      [] svc = "career_generator" -> CHOOSE c \in CareerContexts : c.region = "usa"
      [] svc = "transition_planner" -> CHOOSE c \in TransitionContexts : c.source = SoftwareEngineer
      [] OTHER -> CHOOSE c \in ArticleContexts : TRUE
SeedArticleId == CHOOSE id \in UUIDS : TRUE
SeedFile(svc) ==
    IF svc \in KeyedServices
    THEN JsonFile(SetEntry(NoEntries, CacheKey(SeedContext(svc)),
                           [cached_at |-> StartOfTime, data |-> FallbackPayload(SeedContext(svc))]))
    ELSE JsonFile(SetEntry(NoEntries, SeedArticleId,
                           [cached_at |-> StartOfTime,
                            data |-> model_dump(BuildArticle(FallbackPayload(SeedContext(svc)), SeedContext(svc).topic,
                                                             SeedArticleId, StartOfTime).val)]))

Init ==
    /\ service \in Services
    /\ file \in {Missing, Corrupt, Undecodable, SeedFile(service)}
    /\ clock = StartOfTime
    /\ ticks = 0
    /\ nsaves = 0
    /\ reqs = [r \in Requests |-> Idle]

\* ---------------------------------------------------------------- actions
\* a mutant of CanStart: a lock taken before the store is loaded and held
\* until the function returns, so that no request starts while another is
\* suspended in its upstream call
CanStart_locked(r) ==
    /\ reqs[r].pc = "idle"
    /\ (IF r = 1 THEN TRUE ELSE reqs[r - 1].pc # "idle")
    /\ \A q \in Requests : reqs[q].pc # "awaiting"
\* requests are numbered in the order they arrive
CanStart(r) == reqs[r].pc = "idle" /\ (IF r = 1 THEN TRUE ELSE reqs[r - 1].pc # "idle")
Arrived(r, ctx) ==
    [Idle EXCEPT !.ctx = ctx, !.key = CacheKey(ctx), !.at = clock,
                 !.after = {q \in Requests : reqs[q].pc = "done"}]

\* _load_articles: the same code as _load_cache, on ARTICLES_FILE
_load_articles(f) == _load_cache(f)
\* a mutant of _save_articles: the file is updated with the mapping's
\* entries, and entries the mapping lacks stay in it
save_articles_update(prev, articles) == save_cache_merge(prev, articles)
\* _save_articles: the same code as _save_cache, on ARTICLES_FILE
_save_articles(prev, articles) == _save_cache(prev, articles)

\* if cache_key in cache and _is_entry_valid(cache[cache_key])
CacheHit(cache, key, now) == key \in DOMAIN cache /\ _is_entry_valid(cache[key], now)

\* what a hit returns: the assembly of the stored data; generate_career_detail
\* first sets data["image_url"]
HitResult(ctx, data) ==
    IF ctx.op = "generate_career_detail"
    THEN IF ~IsObj(data) THEN Raise("TypeError")
         ELSE Assemble(ctx, Put(data, "image_url", FStr(ctx.image_url)))
    ELSE Assemble(ctx, data)

\* a mutant of ParsePayload: the fallback quotes the beginning of the text
\* that did not parse
ParsePayload_echo(raw, fallback) ==
    LET parsed == JsonLoads(StripFences(raw))
        first == IF raw = <<>> THEN "" ELSE IF raw[1].k = "prose" THEN raw[1].s ELSE "fence"
    IN  IF parsed.ok THEN parsed.val ELSE Put(fallback, "overview", FStr(<<"Could not parse: ", first>>))
\* cleaned = raw.strip(), fences stripped; try: payload = json.loads(cleaned)
\* except json.JSONDecodeError: payload = _fallback_payload(...)
ParsePayload(raw, fallback) ==
    LET parsed == JsonLoads(StripFences(raw))
    IN  IF parsed.ok THEN parsed.val ELSE fallback
\* whether json.loads raised on the cleaned text
ParseFailed(raw) == ~JsonLoads(StripFences(raw)).ok

\* The request leaves its service function with a result (a value returned
\* or an exception raised) and its HTTP handler, when the sources hold one,
\* answers.
Returned(q, result) ==
    [q EXCEPT !.pc = "done", !.done_at = clock, !.result = result,
              !.response = IF q.ctx.op = "get_article" THEN get_article_endpoint(q.ctx.article_id, result)
                           ELSE IF q.ctx.op = "generate_transition_plan" THEN NoResponse
                           ELSE HttpResponse(service, result)]

\* a mutant of KeyedCall: a hit saves the entry back, with the data as the
\* hit branch left it and cached_at set to the time of the read
KeyedCall_touch(r, ctx) ==
    /\ CanStart(r)
    /\ LET key == CacheKey(ctx)
           loaded == _load_cache(file)
           base == [Arrived(r, ctx) EXCEPT !.saw = file.state, !.loaded_at = nsaves]
       IN  IF ~loaded.ok
           THEN /\ reqs' = [reqs EXCEPT ![r] = Returned(base, loaded)]
                /\ UNCHANGED <<file, nsaves>>
           ELSE IF CacheHit(loaded.val, key, clock)
           THEN /\ reqs' = [reqs EXCEPT ![r] =
                         Returned([base EXCEPT !.loaded = TRUE, !.cache = loaded.val, !.hit = TRUE],
                                  HitResult(ctx, loaded.val[key].data))]
                /\ file' = _save_cache(file, SetEntry(loaded.val, key,
                                [cached_at |-> clock,
                                 data |-> IF ctx.op = "generate_career_detail" /\ IsObj(loaded.val[key].data)
                                          THEN Put(loaded.val[key].data, "image_url", FStr(ctx.image_url))
                                          ELSE loaded.val[key].data]))
                /\ nsaves' = nsaves + 1
           ELSE /\ reqs' = [reqs EXCEPT ![r] =
                         [base EXCEPT !.pc = "awaiting", !.loaded = TRUE, !.cache = loaded.val, !.calls = 1,
                                      !.stale = key \in DOMAIN loaded.val]]
                /\ UNCHANGED <<file, nsaves>>
    /\ UNCHANGED <<service, clock, ticks>>
\* The code of a keyed generate_* function up to its await: derive the key,
\* load the store, return on a hit, otherwise call the client.
KeyedCall(r, ctx) ==
    /\ CanStart(r)
    /\ LET key == CacheKey(ctx)
           loaded == _load_cache(file)
           base == [Arrived(r, ctx) EXCEPT !.saw = file.state, !.loaded_at = nsaves]
       IN  reqs' = [reqs EXCEPT ![r] =
                IF ~loaded.ok
                THEN Returned(base, loaded)
                ELSE IF CacheHit(loaded.val, key, clock)
                THEN Returned([base EXCEPT !.loaded = TRUE, !.cache = loaded.val, !.hit = TRUE],
                              HitResult(ctx, loaded.val[key].data))
                ELSE [base EXCEPT !.pc = "awaiting", !.loaded = TRUE, !.cache = loaded.val, !.calls = 1,
                                  !.stale = key \in DOMAIN loaded.val]]
    /\ UNCHANGED <<service, file, clock, ticks, nsaves>>

\* a mutant of KeyedResume: the entity is assembled first, and the store is
\* written only when that succeeded
KeyedResume_assemble_first(r, raw) ==
    /\ reqs[r].pc = "awaiting"
    /\ LET q == reqs[r]
           payload == ParsePayload(raw, FallbackPayload(q.ctx))
           entity == Assemble(q.ctx, payload)
           parsed == [q EXCEPT !.raw = raw, !.fallback = ParseFailed(raw), !.payload = payload]
       IN  IF entity.ok
           THEN /\ file' = _save_cache(file, SetEntry(q.cache, q.key, [cached_at |-> clock, data |-> payload]))
                /\ nsaves' = nsaves + 1
                /\ reqs' = [reqs EXCEPT ![r] = Returned([parsed EXCEPT !.wrote_at = nsaves + 1], entity)]
           ELSE /\ reqs' = [reqs EXCEPT ![r] = Returned(parsed, entity)]
                /\ UNCHANGED <<file, nsaves>>
    /\ UNCHANGED <<service, clock, ticks>>
\* a mutant of KeyedResume: the store is loaded again after the await and
\* the entry is put into that mapping
KeyedResume_reload(r, raw) ==
    /\ reqs[r].pc = "awaiting"
    /\ LET q == reqs[r]
           payload == ParsePayload(raw, FallbackPayload(q.ctx))
           cache == SetEntry(_load_cache(file).val, q.key, [cached_at |-> clock, data |-> payload])
       IN  /\ file' = _save_cache(file, cache)
           /\ nsaves' = nsaves + 1
           /\ reqs' = [reqs EXCEPT ![r] =
                    Returned([q EXCEPT !.raw = raw, !.fallback = ParseFailed(raw), !.payload = payload,
                                       !.wrote_at = nsaves + 1],
                             Assemble(q.ctx, payload))]
    /\ UNCHANGED <<service, clock, ticks>>
\* a mutant of KeyedResume: a text that does not parse is asked for once
\* more before the fallback is taken
KeyedResume_retry(r, raw) ==
    /\ reqs[r].pc = "awaiting"
    /\ LET q == reqs[r]
           payload == ParsePayload(raw, FallbackPayload(q.ctx))
           cache == SetEntry(q.cache, q.key, [cached_at |-> clock, data |-> payload])
       IN  IF ParseFailed(raw) /\ q.calls < 2
           THEN /\ reqs' = [reqs EXCEPT ![r] = [q EXCEPT !.calls = q.calls + 1]]
                /\ UNCHANGED <<file, nsaves>>
           ELSE /\ file' = _save_cache(file, cache)
                /\ nsaves' = nsaves + 1
                /\ reqs' = [reqs EXCEPT ![r] =
                         Returned([q EXCEPT !.raw = raw, !.fallback = ParseFailed(raw), !.payload = payload,
                                            !.wrote_at = nsaves + 1],
                                  Assemble(q.ctx, payload))]
    /\ UNCHANGED <<service, clock, ticks>>
\* The code of a keyed generate_* function after its await returned raw:
\* parse, put the entry into the mapping loaded before the await, save the
\* file, assemble.  An exception of the save leaves the function.
KeyedResume(r, raw) ==
    /\ reqs[r].pc = "awaiting"
    /\ LET q == reqs[r]
           payload == ParsePayload(raw, FallbackPayload(q.ctx))
           cache == SetEntry(q.cache, q.key, [cached_at |-> clock, data |-> payload])
       IN  /\ file' = _save_cache(file, cache)
           /\ nsaves' = nsaves + 1
           /\ reqs' = [reqs EXCEPT ![r] =
                    Returned([q EXCEPT !.raw = raw, !.fallback = ParseFailed(raw), !.payload = payload,
                                       !.wrote_at = nsaves + 1],
                             IF SaveRaises(cache) THEN Raise("UnicodeEncodeError") ELSE Assemble(q.ctx, payload))]
    /\ UNCHANGED <<service, clock, ticks>>

generate_item_detail_call(r, ctx) == service = "content_generator" /\ ctx \in ItemContexts /\ KeyedCall(r, ctx)
generate_item_detail_resume(r, raw) == service = "content_generator" /\ KeyedResume(r, raw)
generate_career_detail_call(r, ctx) == service = "career_generator" /\ ctx \in CareerContexts /\ KeyedCall(r, ctx)
generate_career_detail_resume(r, raw) == service = "career_generator" /\ KeyedResume(r, raw)
generate_transition_plan_call(r, ctx) == service = "transition_planner" /\ ctx \in TransitionContexts /\ KeyedCall(r, ctx)
generate_transition_plan_resume(r, raw) == service = "transition_planner" /\ KeyedResume(r, raw)

\* generate_article up to its await: no lookup, the client is called
generate_article_call(r, ctx) ==
    /\ service = "article_generator"
    /\ ctx \in ArticleContexts
    /\ CanStart(r)
    /\ reqs' = [reqs EXCEPT ![r] = [Arrived(r, ctx) EXCEPT !.pc = "awaiting", !.calls = 1]]
    /\ UNCHANGED <<service, file, clock, ticks, nsaves>>

\* generate_article after its await: parse, build the Article under a fresh
\* id, then load the store, insert the article's dump and save
generate_article_resume(r, raw, article_id) ==
    /\ service = "article_generator"
    /\ reqs[r].pc = "awaiting"
    /\ LET q == reqs[r]
           payload == ParsePayload(raw, FallbackPayload(q.ctx))
           article == BuildArticle(payload, q.ctx.topic, article_id, clock)
           loaded == _load_articles(file)
           parsed == [q EXCEPT !.raw = raw, !.fallback = ParseFailed(raw), !.payload = payload]
       IN  IF ~article.ok
           THEN /\ reqs' = [reqs EXCEPT ![r] = Returned(parsed, article)]
                /\ UNCHANGED <<file, nsaves>>
           ELSE IF ~loaded.ok
           THEN /\ reqs' = [reqs EXCEPT ![r] = Returned([parsed EXCEPT !.saw = file.state, !.loaded_at = nsaves], loaded)]
                /\ UNCHANGED <<file, nsaves>>
           ELSE /\ file' = _save_articles(file, SetEntry(loaded.val, article_id,
                                                         [cached_at |-> clock, data |-> model_dump(article.val)]))
                /\ nsaves' = nsaves + 1
                /\ reqs' = [reqs EXCEPT ![r] =
                         Returned([parsed EXCEPT !.key = article_id, !.loaded = TRUE, !.cache = loaded.val, !.saw = file.state,
                                                 !.loaded_at = nsaves, !.wrote_at = nsaves + 1],
                                  article)]
    /\ UNCHANGED <<service, clock, ticks>>

\* a mutant of Expired: the comparison of _is_entry_valid, negated
Expired_strict(entry, now) == ~((now - entry.cached_at) < CACHE_TTL_SECONDS)
\* get_article's check: if (time.time() - cached_at) > CACHE_TTL_SECONDS
Expired(entry, now) == (now - entry.cached_at) > CACHE_TTL_SECONDS

\* get_article(article_id): no await, one step
get_article(r, ctx) ==
    /\ service = "article_generator"
    /\ ctx \in GetArticleContexts
    /\ CanStart(r)
    /\ LET key == CacheKey(ctx)
           loaded == _load_articles(file)
           base == [Arrived(r, ctx) EXCEPT !.saw = file.state, !.loaded_at = nsaves]
       IN  IF ~loaded.ok
           THEN /\ reqs' = [reqs EXCEPT ![r] = Returned(base, loaded)]
                /\ UNCHANGED <<file, nsaves>>
           ELSE IF key \notin DOMAIN loaded.val
           THEN /\ reqs' = [reqs EXCEPT ![r] = Returned([base EXCEPT !.loaded = TRUE, !.cache = loaded.val], Ok(None))]
                /\ UNCHANGED <<file, nsaves>>
           ELSE IF Expired(loaded.val[key], clock)
           THEN /\ file' = _save_articles(file, DelEntry(loaded.val, key))
                /\ nsaves' = nsaves + 1
                /\ reqs' = [reqs EXCEPT ![r] =
                         Returned([base EXCEPT !.loaded = TRUE, !.cache = loaded.val, !.stale = TRUE, !.wrote_at = nsaves + 1],
                                  Ok(None))]
           ELSE /\ reqs' = [reqs EXCEPT ![r] =
                         Returned([base EXCEPT !.loaded = TRUE, !.cache = loaded.val, !.hit = TRUE],
                                  ArticleFromData(loaded.val[key].data))]
                /\ UNCHANGED <<file, nsaves>>
    /\ UNCHANGED <<service, clock, ticks>>

\* a mutant of chat_completion_raises: an except clause that drops the
\* request's entry from the store before raising again
chat_completion_raises_evict(r, exc) ==
    /\ reqs[r].pc = "awaiting"
    /\ reqs' = [reqs EXCEPT ![r] = Returned([reqs[r] EXCEPT !.failure = exc], Raise(exc))]
    /\ file' = IF file.state = "json" THEN JsonFile(DelEntry(file.map, reqs[r].key)) ELSE file
    /\ UNCHANGED <<service, clock, ticks, nsaves>>
\* chat_completion raises: no generate_* function catches it, so it leaves
\* the function from the await
chat_completion_raises(r, exc) ==
    /\ reqs[r].pc = "awaiting"
    /\ reqs' = [reqs EXCEPT ![r] = Returned([reqs[r] EXCEPT !.failure = exc], Raise(exc))]
    /\ UNCHANGED <<service, file, clock, ticks, nsaves>>

\* time passes
Tick(d) ==
    /\ ticks < MaxTicks
    /\ clock' = clock + d
    /\ ticks' = ticks + 1
    /\ UNCHANGED <<service, file, nsaves, reqs>>

AllContexts == ItemContexts \cup CareerContexts \cup TransitionContexts \cup ArticleContexts \cup GetArticleContexts

Next ==
    \/ \E r \in Requests, ctx \in AllContexts : generate_item_detail_call(r, ctx)
    \/ \E r \in Requests, raw \in Responses : generate_item_detail_resume(r, raw)
    \/ \E r \in Requests, ctx \in AllContexts : generate_career_detail_call(r, ctx)
    \/ \E r \in Requests, raw \in Responses : generate_career_detail_resume(r, raw)
    \/ \E r \in Requests, ctx \in AllContexts : generate_transition_plan_call(r, ctx)
    \/ \E r \in Requests, raw \in Responses : generate_transition_plan_resume(r, raw)
    \/ \E r \in Requests, ctx \in AllContexts : generate_article_call(r, ctx)
    \/ \E r \in Requests, raw \in Responses, id \in UUIDS : generate_article_resume(r, raw, id)
    \/ \E r \in Requests, ctx \in AllContexts : get_article(r, ctx)
    \/ \E r \in Requests, exc \in ClientErrors : chat_completion_raises(r, exc)
    \/ \E d \in ClockSteps : Tick(d)

Spec == Init /\ [][Next]_vars

\* ------------------------------------- the assemblers, applied to payloads
\* A second specification: one assembler call per behaviour, on a payload
\* made of any subset of the keys the assembler reads, optionally with the
\* keys of the externally supplied fields added.
\* an object the client can answer with under "examples"
OneExample == Obj([title |-> Str("Blocked injection"), scenario |-> Str("A user pastes a hidden instruction.")])
\* a well-formed payload carrying every key the context's assembler reads
FullPayload(ctx) ==
    IF ctx.op = "generate_item_detail"
    THEN Put(ItemFallbackPayload(ctx.item), "examples", List(<<OneExample>>))
    ELSE FallbackPayload(ctx)
\* the keys a payload can carry besides: those of the fields the caller
\* supplies
ForeignFields ==
    Obj([id |-> Str("other-id"), title |-> Str("Other Title"), category |-> Str("evals"),
         image_url |-> Str("http://other.example/x.png"),
         source_id |-> Str("other-source"), source_title |-> Str("Other Source"),
         target_id |-> Str("other-target"), target_title |-> Str("Other Target")])
\* the payload with the given keys of the full one, and the extra fields
PayloadOf(ctx, keys, extra) ==
    Obj([k \in keys \cup (DOMAIN extra.v) |-> IF k \in DOMAIN extra.v THEN extra.v[k] ELSE FullPayload(ctx).v[k]])
ServiceContexts(svc) ==
    CASE svc = "content_generator" -> ItemContexts
      [] svc = "career_generator" -> CareerContexts
      [] svc = "transition_planner" -> TransitionContexts
      [] svc = "article_generator" -> ArticleContexts
      [] OTHER -> {}

InitAssemble ==
    /\ service \in Services
    /\ file = Missing
    /\ clock = StartOfTime
    /\ ticks = 0
    /\ nsaves = 0
    /\ reqs = [r \in Requests |-> Idle]

\* the return statement of a miss: _entry_to_detail(payload, item),
\* _payload_to_detail(payload, profession, image_url),
\* _payload_to_plan(payload, source, target)
assemble_fresh(ctx, keys, extra) ==
    /\ service \in KeyedServices
    /\ reqs[1].pc = "idle"
    /\ LET payload == PayloadOf(ctx, keys, extra)
       IN  reqs' = [reqs EXCEPT ![1] = Returned([Arrived(1, ctx) EXCEPT !.payload = payload],
                                                Assemble(ctx, payload))]
    /\ UNCHANGED <<service, file, clock, ticks, nsaves>>
\* the return statement of a hit, the payload being the stored data
assemble_cached(ctx, keys, extra) ==
    /\ service \in KeyedServices
    /\ reqs[1].pc = "idle"
    /\ LET payload == PayloadOf(ctx, keys, extra)
       IN  reqs' = [reqs EXCEPT ![1] = Returned([Arrived(1, ctx) EXCEPT !.payload = payload, !.hit = TRUE],
                                                HitResult(ctx, payload))]
    /\ UNCHANGED <<service, file, clock, ticks, nsaves>>
\* the Article(...) construction of generate_article
build_article(ctx, keys, article_id) ==
    /\ service = "article_generator"
    /\ reqs[1].pc = "idle"
    /\ LET payload == PayloadOf(ctx, keys, EmptyObj)
       IN  reqs' = [reqs EXCEPT ![1] = Returned([Arrived(1, ctx) EXCEPT !.payload = payload],
                                                BuildArticle(payload, ctx.topic, article_id, clock))]
    /\ UNCHANGED <<service, file, clock, ticks, nsaves>>

NextAssemble ==
    \/ \E ctx \in ServiceContexts(service), extra \in {EmptyObj, ForeignFields} :
           \E keys \in SUBSET (DOMAIN FullPayload(ctx).v) : assemble_fresh(ctx, keys, extra)
    \/ \E ctx \in ServiceContexts(service), extra \in {EmptyObj, ForeignFields} :
           \E keys \in SUBSET (DOMAIN FullPayload(ctx).v) : assemble_cached(ctx, keys, extra)
    \/ \E ctx \in ServiceContexts(service), id \in UUIDS :
           \E keys \in SUBSET (DOMAIN FullPayload(ctx).v) : build_article(ctx, keys, id)

SpecAssemble == InitAssemble /\ [][NextAssemble]_vars

\* ------------------------------------------- the keys of the seed entities
\* A third specification: one key derivation per behaviour, over the ids of
\* every entity of the seed data (the routes look a request's ids up there)
\* and the regions a query string can carry.
GUARDRAIL_IDS ==
    {"input-output-schema-validation", "prompt-injection-defense", "tool-access-policy",
     "pii-redaction", "secrets-detection", "grounding-and-citations", "rate-limiting-and-abuse",
     "audit-logging-and-tracing", "session-management-and-isolation", "jailbreak-detection"}
EVAL_IDS ==
    {"groundedness", "correctness", "refusal-compliance", "tool-call-accuracy", "latency-and-cost",
     "regression-suite", "adversarial-prompt-suite", "pii-leakage-eval", "hallucination-rate"}
PROFESSION_IDS ==
    {"software-engineer", "data-scientist", "cybersecurity-analyst", "devops-engineer",
     "mechanical-engineer", "product-manager", "financial-analyst", "management-consultant",
     "entrepreneur", "ux-designer", "marketing-manager", "content-creator", "doctor-physician",
     "pharmacist", "research-scientist", "lawyer", "teacher-educator", "architect", "hr-manager",
     "project-manager"}
RegionStrings == {"usa", "india", "USA", "India", "INDIA", "", "uk"}
KeyContexts(svc) ==
    CASE svc = "content_generator" ->
            {[op |-> "generate_item_detail", item |-> [id |-> i, category |-> Category_GUARDRAILS]] : i \in GUARDRAIL_IDS}
            \cup {[op |-> "generate_item_detail", item |-> [id |-> i, category |-> Category_EVALS]] : i \in EVAL_IDS}
      [] svc = "career_generator" ->
            {[op |-> "generate_career_detail", profession |-> [id |-> i], region |-> g] :
                 i \in PROFESSION_IDS, g \in RegionStrings}
      [] svc = "transition_planner" ->
            {[op |-> "generate_transition_plan", source |-> [id |-> a], target |-> [id |-> b]] :
                 a \in PROFESSION_IDS, b \in PROFESSION_IDS}
      [] OTHER -> {}

\* the first statements of a keyed generate_* function: the key is derived
derive_key(ctx) ==
    /\ reqs[1].pc = "idle"
    /\ reqs' = [reqs EXCEPT ![1] = [Arrived(1, ctx) EXCEPT !.pc = "derived"]]
    /\ UNCHANGED <<service, file, clock, ticks, nsaves>>

NextKeys == \E ctx \in KeyContexts(service) : derive_key(ctx)

SpecKeys == InitAssemble /\ [][NextKeys]_vars

\* ---------------------------------------- image_generator: career images
\* A fourth specification: the requests for career images.  The state of the
\* service is the directory IMAGES_DIR (the variable file); a request awaits
\* twice, client.images.generate and then http.get.
IMAGES_DIR == "backend/cache/career_images"
\* _image_path(profession_id)
_image_path(profession_id) == IMAGES_DIR \o "/" \o profession_id \o ".png"
\* a pathlib.Path
Path(p) == [t |-> "path", v |-> p]
\* the directory: the files in it, each with its bytes and the time it was
\* written
Images(m) == [state |-> "dir", map |-> m]
\* a directory an earlier process left behind: one image, written when the
\* epoch began
SeedImages == Images([p \in {_image_path(SoftwareEngineer.id)} |-> [content |-> "png-0", written_at |-> 0]])
\* what the provider answers under response.data[0].url (None as "") and
\* what the download holds
ImageUrls == {"https://images.example/1.png", ""}
ImageContents == {"png-1", "png-2"}
ImageErrors == {"RateLimitError: quota exceeded", "HTTPStatusError: 403 Forbidden"}
ImageContexts == {[op |-> "generate_career_image", profession |-> pr] : pr \in PROFESSIONS}

\* a mutant of get_cached_image_path: the ten days of the text caches apply
cached_image_path_ttl(dir, profession_id) ==
    IF /\ _image_path(profession_id) \in DOMAIN dir.map
       /\ clock - dir.map[_image_path(profession_id)].written_at < CACHE_TTL_SECONDS
    THEN Path(_image_path(profession_id))
    ELSE None
\* get_cached_image_path(profession_id): p if p.exists() else None
get_cached_image_path(dir, profession_id) ==
    IF _image_path(profession_id) \in DOMAIN dir.map THEN Path(_image_path(profession_id)) ELSE None

\* get_career_image: FileResponse(path), or 500 with the exception's text
get_career_image(result) ==
    IF result.ok THEN [status |-> 200, path |-> result.val.v]
    ELSE [status |-> 500, detail |-> <<"Image generation failed: ", result.exc>>]
\* the request leaves generate_career_image and the handler answers
ImageReturned(q, result) ==
    [q EXCEPT !.pc = "done", !.done_at = clock, !.result = result, !.response = get_career_image(result)]

InitImages ==
    /\ service = "image_generator"
    /\ file \in {Images(NoEntries), SeedImages}
    /\ clock = StartOfTime
    /\ ticks = 0
    /\ nsaves = 0
    /\ reqs = [r \in Requests |-> Idle]

\* generate_career_image up to its first await: return the cached path, or
\* call the provider
generate_career_image_call(r, ctx) ==
    /\ CanStart(r)
    /\ LET cached == get_cached_image_path(file, ctx.profession.id)
           base == [Arrived(r, ctx) EXCEPT !.key = _image_path(ctx.profession.id), !.loaded = TRUE,
                                           !.cache = file.map, !.saw = file.state, !.loaded_at = nsaves]
       IN  reqs' = [reqs EXCEPT ![r] =
                IF cached # None
                THEN ImageReturned([base EXCEPT !.hit = TRUE], Ok(cached))
                ELSE [base EXCEPT !.pc = "awaiting", !.calls = 1]]
    /\ UNCHANGED <<service, file, clock, ticks, nsaves>>
\* client.images.generate returned: no URL is a RuntimeError, otherwise the
\* download is awaited
images_generate_returns(r, image_url) ==
    /\ reqs[r].pc = "awaiting"
    /\ reqs' = [reqs EXCEPT ![r] =
             IF image_url = ""
             THEN ImageReturned(reqs[r], Raise("RuntimeError: DALL-E returned no URL"))
             ELSE [reqs[r] EXCEPT !.pc = "downloading"]]
    /\ UNCHANGED <<service, file, clock, ticks, nsaves>>
\* client.images.generate raised
images_generate_raises(r, exc) ==
    /\ reqs[r].pc = "awaiting"
    /\ reqs' = [reqs EXCEPT ![r] = ImageReturned([reqs[r] EXCEPT !.failure = exc], Raise(exc))]
    /\ UNCHANGED <<service, file, clock, ticks, nsaves>>
\* http.get returned a success status: dest.write_bytes(content); return dest
http_get_returns(r, content) ==
    /\ reqs[r].pc = "downloading"
    /\ file' = Images(SetEntry(file.map, reqs[r].key, [content |-> content, written_at |-> clock]))
    /\ nsaves' = nsaves + 1
    /\ reqs' = [reqs EXCEPT ![r] = ImageReturned([reqs[r] EXCEPT !.payload = content, !.wrote_at = nsaves + 1],
                                                  Ok(Path(reqs[r].key)))]
    /\ UNCHANGED <<service, clock, ticks>>
\* a mutant of http_get_raises: the destination is created empty before the
\* download, and a failed download leaves it there
http_get_raises_touched(r, exc) ==
    /\ reqs[r].pc = "downloading"
    /\ file' = Images(SetEntry(file.map, reqs[r].key, [content |-> "", written_at |-> clock]))
    /\ reqs' = [reqs EXCEPT ![r] = ImageReturned([reqs[r] EXCEPT !.failure = exc], Raise(exc))]
    /\ UNCHANGED <<service, clock, ticks, nsaves>>
\* http.get raised, or raise_for_status did
http_get_raises(r, exc) ==
    /\ reqs[r].pc = "downloading"
    /\ reqs' = [reqs EXCEPT ![r] = ImageReturned([reqs[r] EXCEPT !.failure = exc], Raise(exc))]
    /\ UNCHANGED <<service, file, clock, ticks, nsaves>>

NextImages ==
    \/ \E r \in Requests, ctx \in ImageContexts : generate_career_image_call(r, ctx)
    \/ \E r \in Requests, url \in ImageUrls : images_generate_returns(r, url)
    \/ \E r \in Requests, exc \in ImageErrors : images_generate_raises(r, exc)
    \/ \E r \in Requests, content \in ImageContents : http_get_returns(r, content)
    \/ \E r \in Requests, exc \in ImageErrors : http_get_raises(r, exc)
    \/ \E d \in ClockSteps : Tick(d)

SpecImages == InitImages /\ [][NextImages]_vars

\* ------------------------------------- the lists a payload can carry
\* A fifth specification: one assembler call per behaviour, of the career
\* or the transition service, on a full payload whose list of objects
\* (career_path, steps) is any sequence of up to MaxElems elements, well
\* formed or not, or is left out.
ListKey(ctx) == IF ctx.op = "generate_career_detail" THEN "career_path" ELSE "steps"
\* what the client can put into the list: two objects the fallback payload
\* carries, an object without the other fields, and a value that is no object
ListElements(ctx) ==
    IF ctx.op = "generate_career_detail"
    THEN {CareerFallbackPayload(ctx.profession).v["career_path"].v[1],
          CareerFallbackPayload(ctx.profession).v["career_path"].v[2],
          Obj([stage |-> Str("Lead")]),
          Str("Senior Level")}
    ELSE {TransitionFallbackPayload(ctx.source, ctx.target).v["steps"].v[1],
          TransitionFallbackPayload(ctx.source, ctx.target).v["steps"].v[2],
          Obj([title |-> Str("Learn the tools")]),
          Num(7)}
SeqsUpTo(S, n) == UNION {[1..m -> S] : m \in 0..n}
ListPayload(ctx, seq) == Obj([k \in {ListKey(ctx)} |-> List(seq)])

InitLists ==
    /\ service \in {"career_generator", "transition_planner"}
    /\ file = Missing
    /\ clock = StartOfTime
    /\ ticks = 0
    /\ nsaves = 0
    /\ reqs = [r \in Requests |-> Idle]

NextLists ==
    \/ \E ctx \in ServiceContexts(service) : \E elems \in SeqsUpTo(ListElements(ctx), MaxElems) :
           assemble_fresh(ctx, DOMAIN FullPayload(ctx).v, ListPayload(ctx, elems))
    \/ \E ctx \in ServiceContexts(service) : \E elems \in SeqsUpTo(ListElements(ctx), MaxElems) :
           assemble_cached(ctx, DOMAIN FullPayload(ctx).v, ListPayload(ctx, elems))
    \/ \E ctx \in ServiceContexts(service) :
           assemble_fresh(ctx, (DOMAIN FullPayload(ctx).v) \ {ListKey(ctx)}, EmptyObj)

SpecLists == InitLists /\ [][NextLists]_vars

\* ------------------------------------------- the texts a client can answer
\* A sixth specification: one request per behaviour, on an absent store,
\* whose upstream call returns any text of up to MaxLines lines.
AnotherOverview == Obj([overview |-> Str("z")])
ParseLines ==
    {Fence, Blank, Prose("Here is the JSON you asked for:"), Doc(OverviewOnly), Doc(AnotherOverview),
     DocPart(OverviewOnly, 1), DocPart(OverviewOnly, 2)}
ParseTexts == SeqsUpTo(ParseLines, MaxLines)

NextParse ==
    \/ \E ctx \in AllContexts : generate_item_detail_call(1, ctx)
    \/ \E raw \in ParseTexts : generate_item_detail_resume(1, raw)
    \/ \E ctx \in AllContexts : generate_career_detail_call(1, ctx)
    \/ \E raw \in ParseTexts : generate_career_detail_resume(1, raw)
    \/ \E ctx \in AllContexts : generate_transition_plan_call(1, ctx)
    \/ \E raw \in ParseTexts : generate_transition_plan_resume(1, raw)
    \/ \E ctx \in AllContexts : generate_article_call(1, ctx)
    \/ \E raw \in ParseTexts, id \in UUIDS : generate_article_resume(1, raw, id)

SpecParse == InitAssemble /\ [][NextParse]_vars

\* --------------------------------------------- requests and no passing time
\* A seventh specification: the requests of the first one on a store that
\* is absent or holds the seed entry, the clock standing still (every seed
\* entry stays fresh).
InitSuspend ==
    /\ service \in Services
    /\ file \in {Missing, SeedFile(service)}
    /\ clock = StartOfTime
    /\ ticks = 0
    /\ nsaves = 0
    /\ reqs = [r \in Requests |-> Idle]

NextSuspend ==
    \/ \E r \in Requests, ctx \in AllContexts : generate_item_detail_call(r, ctx)
    \/ \E r \in Requests, raw \in Responses : generate_item_detail_resume(r, raw)
    \/ \E r \in Requests, ctx \in AllContexts : generate_career_detail_call(r, ctx)
    \/ \E r \in Requests, raw \in Responses : generate_career_detail_resume(r, raw)
    \/ \E r \in Requests, ctx \in AllContexts : generate_transition_plan_call(r, ctx)
    \/ \E r \in Requests, raw \in Responses : generate_transition_plan_resume(r, raw)
    \/ \E r \in Requests, ctx \in AllContexts : generate_article_call(r, ctx)
    \/ \E r \in Requests, raw \in Responses, id \in UUIDS : generate_article_resume(r, raw, id)
    \/ \E r \in Requests, ctx \in AllContexts : get_article(r, ctx)
    \/ \E r \in Requests, exc \in ClientErrors : chat_completion_raises(r, exc)

SpecSuspend == InitSuspend /\ [][NextSuspend]_vars

\* ------------------------------------------------------ the detail routes
\* An eighth specification: the requests GET /items/{item_id}?category=...
\* and GET /careers/{profession_id}, whose handlers look the id up in the
\* seed data before they call the service.
\* ALL_ITEMS.get(item_id), PROFESSIONS_BY_ID.get(profession_id): the entity
\* of that id, None when there is none
Lookup(entities, id) ==
    IF \E e \in entities : e.id = id THEN CHOOSE e \in entities : e.id = id ELSE None
\* the path and query parameters a request can carry
ItemIdInputs == {"prompt-injection-defense", "groundedness", "no-such-item"}
CategoryInputs == {Category_GUARDRAILS, Category_EVALS}
ProfessionIdInputs == {"software-engineer", "data-scientist", "astronaut"}
\* raise HTTPException(status_code=404, ...): the handler ends here
NotFound(r, ctx, message) ==
    [Arrived(r, ctx) EXCEPT !.key = "", !.pc = "done", !.done_at = clock, !.result = Raise("HTTPException"),
                            !.response = [status |-> 404, success |-> FALSE, message |-> message, details |-> ""]]

\* a mutant of get_item_detail: the category of the item found is not
\* compared with the one requested
get_item_detail_anycategory(r, item_id, category) ==
    /\ service = "content_generator"
    /\ LET item_summary == Lookup(ALL_ITEMS, item_id)
       IN  IF item_summary = None
           THEN /\ CanStart(r)
                /\ reqs' = [reqs EXCEPT ![r] =
                         NotFound(r, [op |-> "get_item_detail", item_id |-> item_id, category |-> category],
                                  <<"Item '", item_id, "' not found in category '", category, "'">>)]
                /\ UNCHANGED <<service, file, clock, ticks, nsaves>>
           ELSE KeyedCall(r, [op |-> "generate_item_detail", item |-> item_summary,
                              item_id |-> item_id, category |-> category])
\* get_item_detail(item_id, category): 404 when the id is unknown or the
\* item's category is not the one requested, otherwise generate_item_detail
\* up to its await
get_item_detail(r, item_id, category) ==
    /\ service = "content_generator"
    /\ LET item_summary == Lookup(ALL_ITEMS, item_id)
       IN  IF item_summary = None \/ item_summary.category # category
           THEN /\ CanStart(r)
                /\ reqs' = [reqs EXCEPT ![r] =
                         NotFound(r, [op |-> "get_item_detail", item_id |-> item_id, category |-> category],
                                  <<"Item '", item_id, "' not found in category '", category, "'">>)]
                /\ UNCHANGED <<service, file, clock, ticks, nsaves>>
           ELSE KeyedCall(r, [op |-> "generate_item_detail", item |-> item_summary,
                              item_id |-> item_id, category |-> category])
\* get_career_detail(profession_id): 404 when the id is unknown, otherwise
\* generate_career_detail(profession, image_url=...) up to its await; the
\* region is the function's default
get_career_detail(r, profession_id) ==
    /\ service = "career_generator"
    /\ LET profession == Lookup(PROFESSIONS, profession_id)
       IN  IF profession = None
           THEN /\ CanStart(r)
                /\ reqs' = [reqs EXCEPT ![r] =
                         NotFound(r, [op |-> "get_career_detail", profession_id |-> profession_id],
                                  <<"Profession '", profession_id, "' not found">>)]
                /\ UNCHANGED <<service, file, clock, ticks, nsaves>>
           ELSE KeyedCall(r, [op |-> "generate_career_detail", profession |-> profession, region |-> DEFAULT_REGION,
                              image_url |-> image_url_for(profession_id), profession_id |-> profession_id])

InitRoutes ==
    /\ service \in {"content_generator", "career_generator"}
    /\ file \in {Missing, SeedFile(service)}
    /\ clock = StartOfTime
    /\ ticks = 0
    /\ nsaves = 0
    /\ reqs = [r \in Requests |-> Idle]

NextRoutes ==
    \/ \E r \in Requests, item_id \in ItemIdInputs, category \in CategoryInputs : get_item_detail(r, item_id, category)
    \/ \E r \in Requests, raw \in Responses : generate_item_detail_resume(r, raw)
    \/ \E r \in Requests, profession_id \in ProfessionIdInputs : get_career_detail(r, profession_id)
    \/ \E r \in Requests, raw \in Responses : generate_career_detail_resume(r, raw)
    \/ \E r \in Requests, exc \in ClientErrors : chat_completion_raises(r, exc)

SpecRoutes == InitRoutes /\ [][NextRoutes]_vars

\* ------------------------------------------------------ the article store
\* A ninth specification: the article service alone, with list_articles
\* next to generate_article and get_article.
\* ArticleSummary(id=data.get("id", ""), topic=..., title=..., created_at=...)
ArticleSummary(entry) ==
    LET data == entry.data
        summary == [id |-> Get(data, "id", Str("")), topic |-> Get(data, "topic", Str("")),
                    title |-> Get(data, "title", Str("")), created_at |-> Get(data, "created_at", Str(""))]
    IN  IF IsStr(summary.id) /\ IsStr(summary.topic) /\ IsStr(summary.title) /\ IsStr(summary.created_at)
        THEN Ok(summary) ELSE Raise("ValidationError")
\* summaries.sort(key=lambda s: s.created_at, reverse=True): the ids in an
\* order in which created_at never increases.  The mapping of the model keeps
\* no insertion order, so entries of equal created_at come in any order.
NewestFirst(articles, order) ==
    /\ order \in [1..Cardinality(DOMAIN articles) -> DOMAIN articles]
    /\ \A i, j \in DOMAIN order : i < j => /\ order[i] # order[j]
                                          /\ articles[order[i]].data.v["created_at"].iso
                                                 >= articles[order[j]].data.v["created_at"].iso
\* list_articles_endpoint: the summaries as data; an exception of
\* list_articles is not caught and becomes the framework's bare 500
list_articles_endpoint(result) ==
    IF ~result.ok THEN [status |-> 500, success |-> FALSE, message |-> "Internal Server Error", details |-> ""]
    ELSE [status |-> 200, success |-> TRUE, data |-> result.val]
Listed(r, loaded, result) ==
    [Arrived(r, [op |-> "list_articles"]) EXCEPT
        !.pc = "done", !.done_at = clock, !.saw = file.state, !.loaded_at = nsaves, !.loaded = loaded.ok,
        !.cache = IF loaded.ok THEN loaded.val ELSE NoEntries,
        !.result = result, !.response = list_articles_endpoint(result)]

\* a mutant of list_articles: entries older than the TTL are left out, by
\* get_article's comparison
list_articles_unexpired(r, order) ==
    /\ service = "article_generator"
    /\ CanStart(r)
    /\ LET loaded == _load_articles(file)
       IN  IF ~loaded.ok
           THEN /\ order = <<>>
                /\ reqs' = [reqs EXCEPT ![r] = Listed(r, loaded, loaded)]
           ELSE LET kept == [k \in {k \in DOMAIN loaded.val : ~Expired(loaded.val[k], clock)} |-> loaded.val[k]]
                IN  /\ NewestFirst(kept, order)
                    /\ reqs' = [reqs EXCEPT ![r] =
                             Listed(r, loaded, Ok([i \in DOMAIN order |-> ArticleSummary(kept[order[i]]).val]))]
    /\ UNCHANGED <<service, file, clock, ticks, nsaves>>
\* list_articles(): no await, one step; a summary of every entry of the
\* store, newest first
list_articles(r, order) ==
    /\ service = "article_generator"
    /\ CanStart(r)
    /\ LET loaded == _load_articles(file)
       IN  IF ~loaded.ok
           THEN /\ order = <<>>
                /\ reqs' = [reqs EXCEPT ![r] = Listed(r, loaded, loaded)]
           ELSE /\ NewestFirst(loaded.val, order)
                /\ reqs' = [reqs EXCEPT ![r] =
                         Listed(r, loaded,
                                IF \E k \in DOMAIN loaded.val : ~ArticleSummary(loaded.val[k]).ok
                                THEN Raise("ValidationError")
                                ELSE Ok([i \in DOMAIN order |-> ArticleSummary(loaded.val[order[i]]).val]))]
    /\ UNCHANGED <<service, file, clock, ticks, nsaves>>

InitArticles ==
    /\ service = "article_generator"
    /\ file \in {Missing, Corrupt, Undecodable, SeedFile(service)}
    /\ clock = StartOfTime
    /\ ticks = 0
    /\ nsaves = 0
    /\ reqs = [r \in Requests |-> Idle]

NextArticles ==
    \/ \E r \in Requests, ctx \in ArticleContexts : generate_article_call(r, ctx)
    \/ \E r \in Requests, raw \in Responses, id \in UUIDS : generate_article_resume(r, raw, id)
    \/ \E r \in Requests, ctx \in GetArticleContexts : get_article(r, ctx)
    \/ \E r \in Requests, order \in SeqsUpTo(UUIDS, Cardinality(UUIDS)) : list_articles(r, order)
    \/ \E r \in Requests, exc \in ClientErrors : chat_completion_raises(r, exc)
    \/ \E d \in ClockSteps : Tick(d)

SpecArticles == InitArticles /\ [][NextArticles]_vars

\* ------------------------------------------------- the regions of a career
\* A tenth specification: generate_career_detail for one profession with
\* every region string of RegionStrings, on an absent or a seeded store.
RegionContext(region) ==
    [op |-> "generate_career_detail", profession |-> SoftwareEngineer, region |-> region,
     image_url |-> image_url_for(SoftwareEngineer.id)]

InitRegions ==
    /\ service = "career_generator"
    /\ file \in {Missing, SeedFile(service)}
    /\ clock = StartOfTime
    /\ ticks = 0
    /\ nsaves = 0
    /\ reqs = [r \in Requests |-> Idle]

NextRegions ==
    \/ \E r \in Requests, region \in RegionStrings : KeyedCall(r, RegionContext(region))
    \/ \E r \in Requests, raw \in Responses : generate_career_detail_resume(r, raw)
    \/ \E r \in Requests, exc \in ClientErrors : chat_completion_raises(r, exc)

SpecRegions == InitRegions /\ [][NextRegions]_vars

\* ------------------------------------------------ clearing the item cache
\* An eleventh specification: the item service with clear_cache.  A call of
\* clear_cache takes a slot of reqs like a request, so that what it saw and
\* did is on record; deleting the file counts as a write of it.
Cleared(r, result, deleted) ==
    [Arrived(r, [op |-> "clear_cache"]) EXCEPT
        !.pc = "done", !.done_at = clock, !.saw = file.state, !.loaded_at = nsaves,
        !.wrote_at = IF deleted THEN nsaves + 1 ELSE 0, !.result = result]

\* a mutant of clear_cache: CACHE_FILE.unlink() without the test of
\* CACHE_FILE.exists()
clear_cache_unguarded(r) ==
    /\ service = "content_generator"
    /\ CanStart(r)
    /\ IF file.state # "missing"
       THEN /\ file' = Missing
            /\ nsaves' = nsaves + 1
            /\ reqs' = [reqs EXCEPT ![r] = Cleared(r, Ok(None), TRUE)]
       ELSE /\ reqs' = [reqs EXCEPT ![r] = Cleared(r, Raise("FileNotFoundError"), FALSE)]
            /\ UNCHANGED <<file, nsaves>>
    /\ UNCHANGED <<service, clock, ticks>>
\* clear_cache(): if CACHE_FILE.exists(): CACHE_FILE.unlink()
clear_cache(r) ==
    /\ service = "content_generator"
    /\ CanStart(r)
    /\ IF file.state # "missing"
       THEN /\ file' = Missing
            /\ nsaves' = nsaves + 1
            /\ reqs' = [reqs EXCEPT ![r] = Cleared(r, Ok(None), TRUE)]
       ELSE /\ reqs' = [reqs EXCEPT ![r] = Cleared(r, Ok(None), FALSE)]
            /\ UNCHANGED <<file, nsaves>>
    /\ UNCHANGED <<service, clock, ticks>>

InitClear ==
    /\ service = "content_generator"
    /\ file \in {Missing, Corrupt, Undecodable, SeedFile(service)}
    /\ clock = StartOfTime
    /\ ticks = 0
    /\ nsaves = 0
    /\ reqs = [r \in Requests |-> Idle]

NextClear ==
    \/ \E r \in Requests, ctx \in ItemContexts : generate_item_detail_call(r, ctx)
    \/ \E r \in Requests, raw \in Responses : generate_item_detail_resume(r, raw)
    \/ \E r \in Requests, exc \in ClientErrors : chat_completion_raises(r, exc)
    \/ \E r \in Requests : clear_cache(r)
    \/ \E d \in ClockSteps : Tick(d)

SpecClear == InitClear /\ [][NextClear]_vars

\* ------------------------------------------------------- save, then load
\* A twelfth specification: the three keyed services on an absent, a
\* non-JSON and a seeded store, where the client can also answer with a
\* document one of whose strings holds a surrogate without its pair.
SurrogateResponse == <<Doc(Obj([overview |-> Str(LoneSurrogate)]))>>
SaveResponses == Responses \cup {SurrogateResponse}

InitSave ==
    /\ service \in KeyedServices
    /\ file \in {Missing, Corrupt, SeedFile(service)}
    /\ clock = StartOfTime
    /\ ticks = 0
    /\ nsaves = 0
    /\ reqs = [r \in Requests |-> Idle]

NextSave ==
    \/ \E r \in Requests, ctx \in AllContexts : generate_item_detail_call(r, ctx)
    \/ \E r \in Requests, raw \in SaveResponses : generate_item_detail_resume(r, raw)
    \/ \E r \in Requests, ctx \in AllContexts : generate_career_detail_call(r, ctx)
    \/ \E r \in Requests, raw \in SaveResponses : generate_career_detail_resume(r, raw)
    \/ \E r \in Requests, ctx \in AllContexts : generate_transition_plan_call(r, ctx)
    \/ \E r \in Requests, raw \in SaveResponses : generate_transition_plan_resume(r, raw)

SpecSave == InitSave /\ [][NextSave]_vars

\* ------------------------------------------------------------- properties
KeyedOps == {"generate_item_detail", "generate_career_detail", "generate_transition_plan"}
Keyed(r) == reqs[r].ctx.op \in KeyedOps
Done(r) == reqs[r].pc = "done"
\* the request found an entry under its key in the mapping it loaded
SawEntry(r) == reqs[r].loaded /\ reqs[r].key \in DOMAIN reqs[r].cache
\* the age, at the request's read, of the entry it found
Age(r) == reqs[r].at - reqs[r].cache[reqs[r].key].cached_at
\* the store file was last written by this request
LastWriter(r) == reqs[r].wrote_at > 0 /\ reqs[r].wrote_at = nsaves
\* two outcomes agree: both raise, or both return the same value
SameOutcome(a, b) == a.ok = b.ok /\ (a.ok => a.val = b.val)
\* the file is the mapping m with the entry e put under key k
FileIsWith(m, k, e) ==
    /\ file.state = "json"
    /\ DOMAIN file.map = (DOMAIN m) \cup {k}
    /\ file.map[k] = e
    /\ \A j \in (DOMAIN m) \ {k} : file.map[j] = m[j]
\* the file is the mapping m with the key k removed
FileIsWithout(m, k) ==
    /\ file.state = "json"
    /\ DOMAIN file.map = (DOMAIN m) \ {k}
    /\ \A j \in (DOMAIN m) \ {k} : file.map[j] = m[j]
\* the entry a request that generated leaves under its key
WrittenEntry(r) ==
    [cached_at |-> reqs[r].done_at,
     data |-> IF Keyed(r) THEN reqs[r].payload ELSE model_dump(reqs[r].result.val)]

\* C1: a request to one of the three keyed services that arrives while the
\* store file holds an entry for its key younger than the TTL returns in that
\* same step, without a call to the generation client and without touching
\* the file, and its outcome is that of assembling the stored data.  Only the
\* file and the clock are read, so an entry left by an earlier process counts.
C1_NoRegenerationWithinTTL ==
    [][\A r \in Requests :
          (/\ reqs[r].pc = "idle"
           /\ reqs'[r].pc # "idle"
           /\ reqs'[r].ctx.op \in KeyedOps
           /\ file.state = "json"
           /\ reqs'[r].key \in DOMAIN file.map
           /\ clock - file.map[reqs'[r].key].cached_at < CACHE_TTL_SECONDS)
          => (/\ reqs'[r].pc = "done"
              /\ reqs'[r].calls = 0
              /\ file' = file
              /\ SameOutcome(reqs'[r].result, Assemble(reqs'[r].ctx, file.map[reqs'[r].key].data)))]_vars
\* a hit on an entry no request of this process wrote, TTL - 1 seconds old
C1_Witness ==
    \E r \in Requests :
        /\ Done(r) /\ Keyed(r) /\ reqs[r].hit /\ reqs[r].calls = 0 /\ reqs[r].result.ok
        /\ nsaves = 0
        /\ Age(r) = CACHE_TTL_SECONDS - 1

\* r2 is the call right after r1 with the same context: r1 ran with no other
\* request in flight, had returned when r2 arrived, nothing ran in between,
\* and less than the TTL passed between r1's return and r2's arrival
Successive(r1, r2) ==
    /\ r2 = r1 + 1
    /\ Done(r1) /\ Done(r2)
    /\ reqs[r1].ctx = reqs[r2].ctx
    /\ reqs[r1].after = 1..(r1 - 1)
    /\ reqs[r2].after = 1..r1
    /\ reqs[r2].at - reqs[r1].done_at < CACHE_TTL_SECONDS
GenerateOps == KeyedOps \cup {"generate_article"}

C3_TTLBoundary ==
    /\ CACHE_TTL_SECONDS = 864000
    /\ \A r \in Requests :
           SawEntry(r) =>
               /\ Keyed(r) => /\ reqs[r].hit <=> (Age(r) < CACHE_TTL_SECONDS)
                              /\ reqs[r].stale <=> (Age(r) >= CACHE_TTL_SECONDS)
               /\ (reqs[r].ctx.op = "get_article")
                      => /\ reqs[r].hit <=> (Age(r) <= CACHE_TTL_SECONDS)
                         /\ reqs[r].stale <=> (Age(r) > CACHE_TTL_SECONDS)
\* get_article returns an article whose age is exactly the TTL
C3_Witness ==
    \E r \in Requests :
        /\ Done(r) /\ reqs[r].ctx.op = "get_article" /\ SawEntry(r)
        /\ Age(r) = CACHE_TTL_SECONDS
        /\ reqs[r].hit /\ reqs[r].result.ok /\ reqs[r].response.status = 200
\* C3 as stated: in all four content types an entry is served exactly when
\* its age is < TTL
C3_Original ==
    \A r \in Requests :
        (SawEntry(r) /\ reqs[r].ctx.op \in KeyedOps \cup {"get_article"})
            => (reqs[r].hit <=> (Age(r) < CACHE_TTL_SECONDS))

\* C4 (as the code has it): a request that called the client and returned an
\* entity has written the store before returning, and while no later write
\* happened the file is the mapping the request had loaded plus one entry
\* under its key with cached_at = the time of the write; the entry's data is
\* the raw payload in the three keyed services, and the dump of the assembled
\* Article (under its fresh id) in generate_article.
C4_WriteBeforeReturn ==
    \A r \in Requests :
        (Done(r) /\ reqs[r].calls = 1 /\ reqs[r].result.ok)
            => /\ reqs[r].wrote_at > 0
               /\ LastWriter(r)
                      => FileIsWith(reqs[r].cache, reqs[r].key, WrittenEntry(r))
\* a miss whose upstream call took time: the file holds the raw payload,
\* stamped with the time of the write, which is later than the arrival
C4_Witness ==
    \E r \in Requests :
        /\ Done(r) /\ Keyed(r) /\ reqs[r].calls = 1 /\ reqs[r].result.ok /\ LastWriter(r)
        /\ reqs[r].done_at > reqs[r].at
        /\ file.map[reqs[r].key].data = reqs[r].payload
        /\ file.map[reqs[r].key].cached_at = reqs[r].done_at
\* C4 as stated: in every content type the entry's data is the raw payload
C4_Original ==
    \A r \in Requests :
        (Done(r) /\ reqs[r].calls = 1 /\ reqs[r].result.ok /\ LastWriter(r))
            => /\ file.state = "json"
               /\ reqs[r].key \in DOMAIN file.map
               /\ file.map[reqs[r].key] = [cached_at |-> reqs[r].done_at, data |-> reqs[r].payload]

\* both requests loaded the store before the other wrote it
Overlapping(r1, r2) ==
    /\ r1 # r2
    /\ reqs[r1].loaded /\ reqs[r2].loaded
    /\ (reqs[r2].wrote_at > 0 => reqs[r1].loaded_at < reqs[r2].wrote_at)
    /\ (reqs[r1].wrote_at > 0 => reqs[r2].loaded_at < reqs[r1].wrote_at)

\* C5: two requests of a keyed service for the same key that both loaded a
\* store without that key before either wrote both call the generation
\* client; when both calls returned, both wrote the store, and while no
\* later write happened the entry under the key is the later writer's.
C5_Stampede ==
    \A r1, r2 \in Requests :
        (/\ Keyed(r1) /\ Keyed(r2) /\ Overlapping(r1, r2)
         /\ reqs[r1].key = reqs[r2].key
         /\ reqs[r1].key \notin DOMAIN reqs[r1].cache
         /\ reqs[r2].key \notin DOMAIN reqs[r2].cache)
            => /\ reqs[r1].calls = 1 /\ reqs[r2].calls = 1
               /\ (Done(r1) /\ Done(r2) /\ reqs[r1].failure = "" /\ reqs[r2].failure = "")
                      => /\ reqs[r1].wrote_at > 0 /\ reqs[r2].wrote_at > 0
                         /\ (reqs[r1].wrote_at < reqs[r2].wrote_at /\ LastWriter(r2))
                                => file.map[reqs[r2].key] = WrittenEntry(r2)
\* both generated for the same absent key with different payloads; the file
\* holds the later writer's
C5_Witness ==
    \E r1, r2 \in Requests :
        /\ Keyed(r1) /\ Keyed(r2) /\ Overlapping(r1, r2)
        /\ reqs[r1].key = reqs[r2].key
        /\ reqs[r1].key \notin DOMAIN reqs[r1].cache
        /\ reqs[r2].key \notin DOMAIN reqs[r2].cache
        /\ Done(r1) /\ Done(r2)
        /\ reqs[r1].calls = 1 /\ reqs[r2].calls = 1
        /\ reqs[r1].wrote_at > 0 /\ reqs[r1].wrote_at < reqs[r2].wrote_at /\ LastWriter(r2)
        /\ reqs[r1].payload # reqs[r2].payload
        /\ file.map[reqs[r2].key].data = reqs[r2].payload

\* C6: when two requests of a keyed service for different keys overlap and
\* both write, the file after the later write is the later writer's mapping:
\* what it had loaded plus its own entry.  The earlier writer's entry is then
\* absent (or is the older one the later writer had loaded), although the
\* earlier writer returned its entity.
C6_LostUpdate ==
    \A r1, r2 \in Requests :
        (/\ Keyed(r1) /\ Keyed(r2) /\ Overlapping(r1, r2)
         /\ reqs[r1].key # reqs[r2].key
         /\ reqs[r1].wrote_at > 0 /\ reqs[r1].wrote_at < reqs[r2].wrote_at /\ LastWriter(r2))
            => /\ FileIsWith(reqs[r2].cache, reqs[r2].key, WrittenEntry(r2))
               /\ IF reqs[r1].key \in DOMAIN reqs[r2].cache
                  THEN file.map[reqs[r1].key] = reqs[r2].cache[reqs[r1].key]
                  ELSE reqs[r1].key \notin DOMAIN file.map
\* the earlier writer returned its entity and its entry is not in the file
C6_Witness ==
    \E r1, r2 \in Requests :
        /\ Keyed(r1) /\ Keyed(r2) /\ Overlapping(r1, r2)
        /\ reqs[r1].key # reqs[r2].key
        /\ Done(r1) /\ reqs[r1].result.ok
        /\ reqs[r1].wrote_at > 0 /\ reqs[r1].wrote_at < reqs[r2].wrote_at /\ LastWriter(r2)
        /\ reqs[r1].key \notin DOMAIN file.map
        /\ DOMAIN file.map = {reqs[r2].key}

\* C7 as stated: whenever the text the client returned does not decode (after
\* strip and fence removal), the request takes the fallback payload of its
\* context, writes the store, returns an assembled entity and (where the
\* sources hold its handler) is answered 200; while no later write happened
\* the file holds the fallback under the request's key.
C7_MalformedResponseRecovered ==
    \A r \in Requests :
        (Done(r) /\ reqs[r].fallback)
            => /\ reqs[r].payload = FallbackPayload(reqs[r].ctx)
               /\ reqs[r].result.ok
               /\ Keyed(r) => reqs[r].result = Assemble(reqs[r].ctx, FallbackPayload(reqs[r].ctx))
               /\ reqs[r].response # NoResponse
                      => (reqs[r].response.status = 200 /\ reqs[r].response.data = reqs[r].result.val)
               /\ reqs[r].wrote_at > 0
               /\ LastWriter(r) => file.map[reqs[r].key] = WrittenEntry(r)

\* C8: when the generation client raises, the request ends with that very
\* exception: no payload (fallback or other) is taken, the store is not
\* written, and the handler (of item detail, career detail and article
\* generation) answers 500 with its generic message and the exception's text
\* as details.
C8_UpstreamFailurePropagates ==
    \A r \in Requests :
        (Done(r) /\ reqs[r].failure # "")
            => /\ reqs[r].result = Raise(reqs[r].failure)
               /\ reqs[r].payload = Null
               /\ ~reqs[r].fallback
               /\ reqs[r].wrote_at = 0
               /\ reqs[r].response # NoResponse
                      => reqs[r].response = [status |-> 500, success |-> FALSE,
                                             message |-> GenericMessage(service),
                                             details |-> reqs[r].failure]
\* a request whose upstream call raised, answered 500
C8_Witness ==
    \E r \in Requests :
        /\ Done(r) /\ reqs[r].failure \in ClientErrors /\ reqs[r].calls = 1
        /\ reqs[r].response.status = 500
        /\ reqs[r].response.details = reqs[r].failure

\* no request other than r has written the store since r loaded it
NoOtherWriteSince(r) == \A q \in Requests \ {r} : reqs[q].wrote_at <= reqs[r].loaded_at

\* C9 (as the code has it): only get_article evicts on read: when it finds
\* the article older than the TTL it deletes that key, rewrites the file with
\* the rest of the mapping and returns None.  A keyed service that finds its
\* entry stale neither deletes nor rewrites: while its upstream call is
\* pending, and for good if that call raises, the stale entry stays in the
\* file; it is replaced only by the write that follows a generation.
C9_LazyEviction ==
    \A r \in Requests :
        /\ (reqs[r].ctx.op = "get_article" /\ reqs[r].stale)
               => /\ reqs[r].result = Ok(None)
                  /\ reqs[r].wrote_at = reqs[r].loaded_at + 1
                  /\ LastWriter(r) => FileIsWithout(reqs[r].cache, reqs[r].key)
        /\ (Keyed(r) /\ reqs[r].stale /\ NoOtherWriteSince(r) /\ reqs[r].wrote_at = 0)
               => /\ nsaves = reqs[r].loaded_at
                  /\ file.state = "json"
                  /\ reqs[r].key \in DOMAIN file.map
                  /\ file.map[reqs[r].key] = reqs[r].cache[reqs[r].key]
\* a keyed request found its entry stale, its upstream call raised, and the
\* stale entry is still in the file
C9_Witness ==
    \E r \in Requests :
        /\ Done(r) /\ Keyed(r) /\ reqs[r].stale /\ reqs[r].failure # ""
        /\ Age(r) > CACHE_TTL_SECONDS
        /\ file.map[reqs[r].key] = reqs[r].cache[reqs[r].key]
\* C9 as stated: whichever content type, once a request has read the store
\* and found its entry stale, the key has been deleted and the file rewritten
C9_Original ==
    \A r \in Requests :
        (reqs[r].stale /\ NoOtherWriteSince(r) /\ reqs[r].wrote_at \in {0, reqs[r].loaded_at + 1}
         /\ (Keyed(r) => reqs[r].pc = "awaiting"))
            => /\ nsaves = reqs[r].loaded_at + 1
               /\ reqs[r].key \notin DOMAIN file.map

\* C10 as stated: a request that loads a store file that is missing or does
\* not parse gets the empty mapping and no exception.  A keyed request then
\* misses and calls the client, and when that call returns the file is
\* rewritten with the one new entry; get_article answers 404 and writes
\* nothing; generate_article stores its article as the only entry.
C10_StoreResilience ==
    \A r \in Requests :
        (reqs[r].pc # "idle" /\ reqs[r].saw \in {"missing", "corrupt", "undecodable"})
            => /\ reqs[r].loaded
               /\ reqs[r].cache = NoEntries
               /\ Keyed(r) => /\ ~reqs[r].hit
                              /\ reqs[r].calls = 1
                              /\ (Done(r) /\ reqs[r].failure = "")
                                     => /\ reqs[r].wrote_at > 0
                                        /\ reqs[r].result = Assemble(reqs[r].ctx, reqs[r].payload)
               /\ (reqs[r].ctx.op = "get_article")
                      => /\ reqs[r].result = Ok(None)
                         /\ reqs[r].response.status = 404
                         /\ reqs[r].wrote_at = 0
               /\ (reqs[r].ctx.op = "generate_article")
                      => (reqs[r].result.ok /\ reqs[r].wrote_at > 0)
               /\ (reqs[r].wrote_at > 0 /\ LastWriter(r))
                      => FileIsWith(NoEntries, reqs[r].key, WrittenEntry(r))

\* the fields of each entity, as models/schemas.py declares them
ItemDetailFields ==
    {"id", "title", "category", "overview", "why_it_matters", "implementation_steps", "examples",
     "risks_and_pitfalls", "metrics_or_checks"}
CareerDetailFields ==
    {"id", "title", "overview", "salary_range", "key_skills", "education_requirements", "career_path",
     "day_in_the_life", "pros", "cons", "future_outlook", "image_url"}
TransitionPlanFields ==
    {"source_id", "source_title", "target_id", "target_title", "summary", "estimated_duration", "difficulty",
     "steps", "tips"}
\* e is an ItemDetail: every field present and within the schema
IsItemDetail(e) ==
    /\ DOMAIN e = ItemDetailFields
    /\ e.category \in {Category_GUARDRAILS, Category_EVALS}
    /\ ItemDetailValid(e)
    /\ \A i \in DOMAIN e.examples :
           /\ DOMAIN e.examples[i] = {"title", "scenario", "code_snippet"}
           /\ \A k \in DOMAIN e.examples[i] : IsStr(e.examples[i][k])
\* e is a CareerDetail
IsCareerDetail(e) ==
    /\ DOMAIN e = CareerDetailFields
    /\ CareerDetailValid(e)
    /\ \A i \in DOMAIN e.career_path :
           /\ DOMAIN e.career_path[i] = {"stage", "years", "description"}
           /\ \A k \in DOMAIN e.career_path[i] : IsStr(e.career_path[i][k])
\* e is a TransitionPlan
IsTransitionPlan(e) ==
    /\ DOMAIN e = TransitionPlanFields
    /\ TransitionPlanValid(e)
    /\ \A i \in DOMAIN e.steps : TransitionStepValid(e.steps[i])
\* e is an Article: it has every field and its dump validates again
IsArticle(e) == DOMAIN e = ArticleFields /\ ArticleFromData(model_dump(e)).ok
\* e is the entity the operation promises
IsEntity(op, e) ==
    CASE op = "generate_item_detail" -> IsItemDetail(e)
      [] op = "generate_career_detail" -> IsCareerDetail(e)
      [] op = "generate_transition_plan" -> IsTransitionPlan(e)
      [] OTHER -> IsArticle(e)

\* C11: every finished request either returns an entity that has every field
\* of its schema with values the schema accepts (answered 200 with that
\* entity as data), or fails explicitly: an exception leaves the service
\* function (answered 500), or get_article returns None (answered 404).  No
\* upstream response and no store content makes a request return an entity
\* with a field missing or out of its schema.
C11_EntityOrFailure ==
    \A r \in Requests :
        Done(r) =>
            IF ~reqs[r].result.ok
            THEN reqs[r].response # NoResponse
                     => (reqs[r].response.status = 500 /\ ~reqs[r].response.success)
            ELSE IF reqs[r].result.val = None
            THEN reqs[r].ctx.op = "get_article" /\ reqs[r].response.status = 404
            ELSE /\ IsEntity(reqs[r].ctx.op, reqs[r].result.val)
                 /\ reqs[r].response # NoResponse
                        => (reqs[r].response.status = 200 /\ reqs[r].response.data = reqs[r].result.val)
\* the client answered a document whose list is too short: the first request
\* stored it and failed in validation, the second hit the entry and failed
\* again, and neither returned an entity
C11_Witness ==
    \E r1, r2 \in Requests :
        /\ Done(r1) /\ Done(r2) /\ r1 # r2
        /\ reqs[r1].payload = IllTyped
        /\ reqs[r1].result = Raise("ValidationError")
        /\ reqs[r1].response.status = 500
        /\ reqs[r2].hit /\ reqs[r2].result = Raise("ValidationError")

\* the default each assembler names for a key its payload lacks
NamedDefaults(ctx) ==
    CASE ctx.op = "generate_item_detail" ->
            [overview |-> Str(""), why_it_matters |-> Str(""),
             implementation_steps |-> DefaultImplementationSteps,
             risks_and_pitfalls |-> DefaultRisks, metrics_or_checks |-> DefaultMetrics]
      [] ctx.op = "generate_career_detail" ->
            [overview |-> Str(ctx.profession.short_description),
             salary_range |-> Str("Varies by experience and location"),
             key_skills |-> DefaultKeySkills,
             education_requirements |-> Str("Varies by specialization."),
             day_in_the_life |-> Str("A typical day involves a variety of tasks and responsibilities."),
             pros |-> DefaultPros, cons |-> DefaultCons,
             future_outlook |-> Str("The outlook for this profession remains positive.")]
      [] ctx.op = "generate_transition_plan" ->
            [summary |-> FStr(<<"Transition from ", ctx.source.title, " to ", ctx.target.title, ".">>),
             estimated_duration |-> Str("1-2 years"), difficulty |-> Str("moderate"), tips |-> DefaultTips]
      [] OTHER ->
            [title |-> Str(ctx.topic), subtitle |-> Str(""), conclusion |-> Str("")]
\* the list-of-object fields of the entity e come from the payload p, or
\* from the default of the field
NestedFrom(ctx, p, e) ==
    CASE ctx.op = "generate_item_detail" ->
            /\ Len(e.examples) = Len(Get(p, "examples", List(<<>>)).v)
            /\ \A i \in DOMAIN e.examples : e.examples[i].title = p.v["examples"].v[i].v["title"]
      [] ctx.op = "generate_career_detail" ->
            LET path == Get(p, "career_path", DefaultCareerPath).v
            IN  /\ Len(e.career_path) = Len(path)
                /\ \A i \in DOMAIN path : e.career_path[i].stage = path[i].v["stage"]
      [] ctx.op = "generate_transition_plan" -> e.steps = Get(p, "steps", List(<<>>)).v
      [] OTHER ->
            /\ e.sections.v = (IF Has(p, "sections") THEN p.v["sections"].v
                               ELSE <<Obj([heading |-> Str("Introduction"),
                                           body |-> FStr(<<"An exploration of ", ctx.topic, ".">>)])>>)
            /\ e.diagram_nodes.v = Get(p, "diagram_nodes", List(<<>>)).v
            /\ e.diagram_edges.v = Get(p, "diagram_edges", List(<<>>)).v

\* C12: applied to a payload that is a mapping with any subset of the keys
\* the assembler reads (the empty mapping included), the present keys
\* carrying well-formed values, each assembler (_entry_to_detail,
\* _payload_to_detail, _payload_to_plan, the Article construction) returns
\* an entity and raises nothing; the entity has every field of its schema,
\* each one the payload's value when the key is present and the default the
\* assembler names when it is not.
C12_AssemblerCompleteness ==
    \A r \in Requests :
        Done(r) =>
            /\ reqs[r].result.ok
            /\ IsEntity(reqs[r].ctx.op, reqs[r].result.val)
            /\ \A k \in DOMAIN NamedDefaults(reqs[r].ctx) :
                   reqs[r].result.val[k] = Get(reqs[r].payload, k, NamedDefaults(reqs[r].ctx)[k])
            /\ NestedFrom(reqs[r].ctx, reqs[r].payload, reqs[r].result.val)
\* the empty mapping assembled into a transition plan made of the defaults
C12_Witness ==
    \E r \in Requests :
        /\ Done(r) /\ reqs[r].ctx.op = "generate_transition_plan"
        /\ reqs[r].payload = EmptyObj
        /\ reqs[r].result.ok
        /\ reqs[r].result.val.tips = DefaultTips
        /\ reqs[r].result.val.steps = <<>>

\* the source entity of a request: what the fallback payload is built from
SourceEntity(ctx) ==
    CASE ctx.op = "generate_item_detail" -> <<ctx.item>>
      [] ctx.op = "generate_career_detail" -> <<ctx.profession>>
      [] ctx.op = "generate_transition_plan" -> <<ctx.source, ctx.target>>
      [] OTHER -> <<ctx.topic>>
\* an article without the two fields drawn per call (id and creation time)
ArticleContent(a) == [k \in ArticleFields \ {"id", "created_at"} |-> a[k]]

\* C13: whenever the text the client returned does not decode, the payload
\* the request takes is the fallback payload of its source entity, whatever
\* the text was: two requests for the same source entity that both received
\* undecodable texts took the same payload, stored the same data, and (when
\* both returned) returned the same entity, articles differing only in the
\* id and creation time drawn per call.
C13_FallbackDeterminism ==
    \A r1, r2 \in Requests :
        (/\ reqs[r1].fallback /\ reqs[r2].fallback
         /\ SourceEntity(reqs[r1].ctx) = SourceEntity(reqs[r2].ctx))
            => /\ reqs[r1].payload = reqs[r2].payload
               /\ (Keyed(r1) /\ reqs[r1].wrote_at > 0 /\ LastWriter(r1))
                      => file.map[reqs[r1].key].data = reqs[r2].payload
               /\ (Keyed(r1) /\ Keyed(r2)) => reqs[r1].result = reqs[r2].result
               /\ (~Keyed(r1) /\ reqs[r1].result.ok /\ reqs[r2].result.ok)
                      => ArticleContent(reqs[r1].result.val) = ArticleContent(reqs[r2].result.val)
\* two requests for one source entity received two different texts that do
\* not decode, and returned the same entity
C13_Witness ==
    \E r1, r2 \in Requests :
        /\ r1 # r2 /\ Done(r1) /\ Done(r2) /\ Keyed(r1)
        /\ reqs[r1].fallback /\ reqs[r2].fallback
        /\ SourceEntity(reqs[r1].ctx) = SourceEntity(reqs[r2].ctx)
        /\ reqs[r1].raw # reqs[r2].raw
        /\ reqs[r1].result.ok /\ reqs[r1].result = reqs[r2].result

\* the key context of a request: what the spec says the key is derived from
KeyContext(ctx) ==
    CASE ctx.op = "generate_item_detail" -> <<ctx.item.category, ctx.item.id>>
      [] ctx.op = "generate_career_detail" -> <<ctx.profession.id, NormalizeRegion(ctx.region)>>
      [] ctx.op = "generate_transition_plan" -> <<ctx.source.id, ctx.target.id>>
      [] ctx.op = "generate_article" -> <<ctx.topic>>
      [] OTHER -> <<ctx.article_id>>

\* C14 (as the code has it): in the item, career and transition caches two
\* requests with the same key context (category and item id; profession id
\* and normalized region; ordered pair of profession ids) derive the same
\* key, and a request that loads the file as an earlier one with that key
\* context left it finds that one's entry under its key.  generate_article
\* derives no key from the topic: each call stores under the id it draws,
\* which is the id of the article it returns.
C14_SameContextSameEntry ==
    /\ \A r1, r2 \in Requests :
           (/\ Keyed(r1) /\ Keyed(r2)
            /\ KeyContext(reqs[r1].ctx) = KeyContext(reqs[r2].ctx))
               => /\ reqs[r1].key = reqs[r2].key
                  /\ (reqs[r1].wrote_at > 0 /\ reqs[r2].loaded /\ reqs[r2].loaded_at = reqs[r1].wrote_at)
                         => /\ reqs[r2].key \in DOMAIN reqs[r2].cache
                            /\ reqs[r2].cache[reqs[r2].key] = WrittenEntry(r1)
    /\ \A r \in Requests :
           (reqs[r].ctx.op = "generate_article" /\ reqs[r].wrote_at > 0)
               => /\ reqs[r].key \in UUIDS
                  /\ reqs[r].result.val.id = Str(reqs[r].key)
\* two career requests whose regions are written differently but normalize
\* to the same one: the second is served the entry the first wrote
C14_Witness ==
    \E r1, r2 \in Requests :
        /\ Keyed(r1) /\ Keyed(r2) /\ Done(r1) /\ Done(r2)
        /\ reqs[r1].ctx # reqs[r2].ctx
        /\ KeyContext(reqs[r1].ctx) = KeyContext(reqs[r2].ctx)
        /\ reqs[r1].wrote_at > 0 /\ reqs[r2].loaded_at = reqs[r1].wrote_at
        /\ reqs[r2].hit /\ reqs[r2].result.ok
        /\ reqs[r2].cache[reqs[r2].key].data = reqs[r1].payload
\* C14 as stated: in all four content types two requests with the same key
\* context (for articles: the same topic) address the same store entry
C14_Original ==
    \A r1, r2 \in Requests :
        (/\ reqs[r1].ctx.op \in GenerateOps /\ reqs[r2].ctx.op \in GenerateOps
         /\ KeyContext(reqs[r1].ctx) = KeyContext(reqs[r2].ctx)
         /\ (Keyed(r1) \/ (reqs[r1].wrote_at > 0 /\ reqs[r2].wrote_at > 0)))
            => reqs[r1].key = reqs[r2].key

\* the transition in the other direction
Reverse(ctx) == [ctx EXCEPT !.source = ctx.target, !.target = ctx.source]

\* C15: over the ids of every seed item and profession and every region a
\* request can carry, the key a request of a keyed service derives is the
\* key of no request of that service with a different key context (category
\* or item id; profession id or normalized region; ordered pair of
\* profession ids); in particular the key of the transition (a, b) is not
\* the key of (b, a).
C15_KeyIdentifiesContext ==
    \A r \in Requests :
        Keyed(r) =>
            /\ \A c \in KeyContexts(service) :
                   KeyContext(c) # KeyContext(reqs[r].ctx) => CacheKey(c) # reqs[r].key
            /\ (reqs[r].ctx.op = "generate_transition_plan" /\ reqs[r].ctx.source # reqs[r].ctx.target)
                   => CacheKey(Reverse(reqs[r].ctx)) # reqs[r].key
\* the key of a transition has been derived, and the reverse transition has
\* another
C15_Witness ==
    \E r \in Requests :
        /\ reqs[r].pc = "derived"
        /\ reqs[r].ctx.op = "generate_transition_plan"
        /\ reqs[r].key = "software-engineer__to__data-scientist"
        /\ CacheKey(Reverse(reqs[r].ctx)) = "data-scientist__to__software-engineer"

\* C16: a request for the image of a profession that arrives while a file
\* exists at that profession's path returns that path in the same step,
\* without calling the provider and without touching the directory, however
\* old the file is; no step removes a file; and a request that arrived after
\* another had written the image for the same profession made no call.
C16_ImagesNeverExpire ==
    [][/\ \A r \in Requests :
            (/\ reqs[r].pc = "idle"
             /\ reqs'[r].pc # "idle"
             /\ reqs'[r].key \in DOMAIN file.map)
                => (/\ reqs'[r].pc = "done"
                    /\ reqs'[r].calls = 0
                    /\ reqs'[r].result = Ok(Path(_image_path(reqs'[r].ctx.profession.id)))
                    /\ file' = file)
       /\ \A p \in DOMAIN file.map : p \in DOMAIN file'.map
       /\ \A r1, r2 \in Requests :
            (/\ reqs'[r1].wrote_at > 0
             /\ reqs'[r2].pc # "idle"
             /\ reqs'[r2].key = reqs'[r1].key
             /\ reqs'[r2].loaded_at >= reqs'[r1].wrote_at)
                => (reqs'[r2].calls = 0 /\ reqs'[r2].hit)]_vars
\* the image an earlier process wrote, by now older than the ten days of the
\* text caches, is returned without a call
C16_Witness ==
    \E r \in Requests :
        /\ Done(r) /\ reqs[r].hit /\ reqs[r].calls = 0
        /\ reqs[r].result = Ok(Path("backend/cache/career_images/software-engineer.png"))
        /\ reqs[r].response.status = 200
        /\ reqs[r].at - reqs[r].cache[reqs[r].key].written_at > CACHE_TTL_SECONDS
        /\ ticks > 0

\* the request of the scenario: item prompt-injection-defense of category
\* guardrails, the store loaded as the empty mapping, the client's answer the
\* fenced document {"overview": "x"}
FencedOverviewOnly == <<Blank, Fence, Doc(Obj([overview |-> Str("x")])), Fence, Blank>>
ScenarioFirst(r) ==
    /\ Done(r)
    /\ reqs[r].ctx.op = "generate_item_detail"
    /\ reqs[r].ctx.item.id = "prompt-injection-defense"
    /\ reqs[r].ctx.item.category = "guardrails"
    /\ reqs[r].loaded /\ reqs[r].cache = NoEntries
    /\ reqs[r].calls = 1 /\ reqs[r].failure = ""
    /\ reqs[r].raw = FencedOverviewOnly
\* a second request for the same item that loads the store as the first left
\* it, less than ten days after the first stored its entry
ScenarioSecond(r1, r2) ==
    /\ Done(r2)
    /\ reqs[r2].ctx = reqs[r1].ctx
    /\ reqs[r2].loaded /\ reqs[r2].loaded_at = reqs[r1].wrote_at
    /\ reqs[r2].at - reqs[r1].done_at < 10 * 24 * 60 * 60

\* C17: the first request of the scenario returns an entity whose overview
\* is "x" and whose implementation_steps are "Step 1" .. "Step 5"; a second
\* request for the item less than ten days later (no other request having
\* written the store in between) returns the same overview and makes no
\* client call.
C17_FencedOverviewScenario ==
    \A r1 \in Requests :
        ScenarioFirst(r1) =>
            /\ reqs[r1].result.ok
            /\ reqs[r1].result.val.overview = Str("x")
            /\ reqs[r1].result.val.implementation_steps
                   = List(<<Str("Step 1"), Str("Step 2"), Str("Step 3"), Str("Step 4"), Str("Step 5")>>)
            /\ \A r2 \in Requests \ {r1} :
                   ScenarioSecond(r1, r2) =>
                       /\ reqs[r2].calls = 0
                       /\ reqs[r2].result.ok
                       /\ reqs[r2].result.val.overview = reqs[r1].result.val.overview
\* the scenario ran: the second request came ten days less a second after
\* the first and was served "x" from the store
C17_Witness ==
    \E r1, r2 \in Requests :
        /\ r1 # r2 /\ ScenarioFirst(r1) /\ ScenarioSecond(r1, r2)
        /\ reqs[r1].saw = "missing"
        /\ reqs[r2].at - reqs[r1].done_at = CACHE_TTL_SECONDS - 1
        /\ reqs[r2].hit /\ reqs[r2].calls = 0
        /\ reqs[r2].result.val.overview = Str("x")

\* C18: in every entity an assembler returns, on the miss path and on the
\* hit path, the fields the caller supplies are the caller's: id, title and
\* category are the item's; id and title the profession's and image_url the
\* URL passed in; source_id, source_title, target_id and target_title those
\* of the two professions - whatever the payload holds under these keys.
C18_SuppliedFieldsOverride ==
    \A r \in Requests :
        (Done(r) /\ reqs[r].result.ok) =>
            LET c == reqs[r].ctx
                e == reqs[r].result.val
            IN  /\ (c.op = "generate_item_detail")
                       => (e.id = c.item.id /\ e.title = c.item.title /\ e.category = c.item.category)
                /\ (c.op = "generate_career_detail")
                       => (e.id = c.profession.id /\ e.title = c.profession.title /\ e.image_url = c.image_url)
                /\ (c.op = "generate_transition_plan")
                       => (/\ e.source_id = c.source.id /\ e.source_title = c.source.title
                           /\ e.target_id = c.target.id /\ e.target_title = c.target.title)
\* a stored career payload that carries its own id, title and image_url was
\* assembled on the hit path, and the entity has the caller's
C18_Witness ==
    \E r \in Requests :
        /\ Done(r) /\ reqs[r].hit /\ reqs[r].result.ok
        /\ reqs[r].ctx.op = "generate_career_detail"
        /\ Has(reqs[r].payload, "image_url") /\ Has(reqs[r].payload, "id")
        /\ reqs[r].payload.v["image_url"] = Str("http://other.example/x.png")
        /\ reqs[r].result.val.image_url = <<"/api/v1/careers/", "software-engineer", "/image">>
        /\ reqs[r].result.val.id = "software-engineer"

\* the upstream call of a keyed request returned a text, and assembling the
\* payload taken from it raised
AssemblyRaised(r) ==
    /\ Keyed(r) /\ Done(r)
    /\ reqs[r].calls = 1 /\ reqs[r].failure = ""
    /\ ~reqs[r].result.ok

\* C19: in the item, career and transition caches a request whose payload
\* does not assemble has nevertheless written its entry: the store was saved
\* before the assembler ran, and while no later write happened the file
\* holds the payload under the request's key.  A request for that key that
\* loads the store as the first left it, less than the TTL later, is a hit:
\* it makes no client call, writes nothing and fails as well.
C19_WriteBeforeAssembly ==
    \A r1 \in Requests :
        AssemblyRaised(r1) =>
            /\ reqs[r1].wrote_at > 0
            /\ LastWriter(r1) => FileIsWith(reqs[r1].cache, reqs[r1].key, WrittenEntry(r1))
            /\ \A r2 \in Requests \ {r1} :
                   (/\ Keyed(r2) /\ reqs[r2].key = reqs[r1].key
                    /\ reqs[r2].loaded /\ reqs[r2].loaded_at = reqs[r1].wrote_at
                    /\ reqs[r2].at - reqs[r1].done_at < CACHE_TTL_SECONDS)
                       => /\ reqs[r2].hit
                          /\ reqs[r2].calls = 0
                          /\ reqs[r2].wrote_at = 0
                          /\ ~reqs[r2].result.ok
\* the client answered a JSON list: the first request stored it and raised,
\* and a request for the key some days later hit the entry and raised too
C19_Witness ==
    \E r1, r2 \in Requests :
        /\ r1 # r2 /\ AssemblyRaised(r1)
        /\ reqs[r1].payload = NotAnObject
        /\ reqs[r1].result = Raise("AttributeError")
        /\ Done(r2) /\ reqs[r2].key = reqs[r1].key
        /\ reqs[r2].at > reqs[r1].done_at
        /\ reqs[r2].hit /\ reqs[r2].calls = 0 /\ ~reqs[r2].result.ok
        /\ file.map[reqs[r1].key].data = NotAnObject

C21_FailureLeavesStore ==
    [][/\ \A r \in Requests :
            (reqs[r].pc = "awaiting" /\ reqs'[r].failure # "")
                => /\ file' = file
                   /\ reqs'[r].wrote_at = 0
                   /\ reqs'[r].result = Raise(reqs'[r].failure)
       /\ \A r \in Requests :
            (reqs[r].pc = "idle" /\ reqs'[r].pc = "awaiting") => file' = file
       /\ \A r1, r2 \in Requests :
            (/\ reqs'[r1].pc = "done" /\ reqs'[r1].failure # ""
             /\ reqs'[r1].ctx.op \in KeyedOps
             /\ reqs'[r2].pc # "idle"
             /\ reqs'[r2].key = reqs'[r1].key
             /\ r1 \in reqs'[r2].after
             /\ reqs'[r2].loaded_at = reqs'[r1].loaded_at)
                => /\ reqs'[r2].cache = reqs'[r1].cache
                   /\ reqs'[r2].stale = reqs'[r1].stale
                   /\ ~reqs'[r2].hit
                   /\ reqs'[r2].calls = 1]_vars
\* a request found a stale entry, its upstream call raised, and the next
\* request for the key found the same stale entry in the file and called the
\* client again
C21_Witness ==
    \E r1, r2 \in Requests :
        /\ Done(r1) /\ Keyed(r1) /\ reqs[r1].stale /\ reqs[r1].failure \in ClientErrors
        /\ r1 \in reqs[r2].after /\ reqs[r2].key = reqs[r1].key
        /\ reqs[r2].stale /\ reqs[r2].calls = 1 /\ reqs[r2].pc = "awaiting"
        /\ file = SeedFile(service)
        /\ clock - file.map[reqs[r1].key].cached_at >= CACHE_TTL_SECONDS

\* C22: the step in which a request of the item, career or transition cache
\* is served from a fresh entry leaves the store file as it is: nothing is
\* saved, the entry keeps its cached_at (so its age goes on counting from the
\* write), and the data stored for a career keeps lacking the image_url the
\* hit puts into the returned entity.
C22_HitLeavesStore ==
    [][\A r \in Requests :
          (reqs[r].pc = "idle" /\ reqs'[r].hit /\ reqs'[r].ctx.op \in KeyedOps)
              => LET key == reqs'[r].key
                 IN  /\ file' = file
                     /\ nsaves' = nsaves
                     /\ reqs'[r].wrote_at = 0
                     /\ file'.map[key].cached_at = reqs'[r].cache[key].cached_at
                     /\ file'.map[key].data = reqs'[r].cache[key].data
                     /\ (reqs'[r].ctx.op = "generate_career_detail" /\ reqs'[r].result.ok)
                            => reqs'[r].result.val.image_url = reqs'[r].ctx.image_url]_vars
\* a career request served from an entry written TTL - 1 seconds earlier:
\* the entity carries the image_url, the stored data does not, and cached_at
\* is still the time of the write
C22_Witness ==
    \E r \in Requests :
        /\ Done(r) /\ reqs[r].hit /\ reqs[r].ctx.op = "generate_career_detail"
        /\ reqs[r].result.ok /\ reqs[r].result.val.image_url = image_url_for(SoftwareEngineer.id)
        /\ Age(r) = CACHE_TTL_SECONDS - 1
        /\ file.state = "json"
        /\ ~Has(file.map[reqs[r].key].data, "image_url")
        /\ file.map[reqs[r].key].cached_at = reqs[r].at - (CACHE_TTL_SECONDS - 1)

\* whether the value x is one the schema accepts for the field k
WellTyped(ctx, k, x) ==
    CASE k \in {"implementation_steps"} -> IsStrList(x, 5, 8)
      [] k \in {"risks_and_pitfalls", "metrics_or_checks", "cons"} -> IsStrList(x, 3, 6)
      [] k = "key_skills" -> IsStrList(x, 5, 10)
      [] k = "pros" -> IsStrList(x, 3, 7)
      [] k = "tips" -> IsList(x) /\ \A i \in 1..Len(x.v) : IsStr(x.v[i])
      [] OTHER -> IsStr(x)
\* C23: a request of the item, career or transition cache whose payload is
\* a mapping returns an entity, whatever the values of the mapping: each
\* field is the payload's value when the key is present with a value the
\* schema accepts, and the default the assembler names when the key is
\* missing or its value is not one the schema accepts.
C23_IllTypedYieldsDefault ==
    \A r \in Requests :
        (Done(r) /\ Keyed(r) /\ reqs[r].payload # Null /\ IsObj(reqs[r].payload))
            => /\ reqs[r].result.ok
               /\ \A k \in DOMAIN NamedDefaults(reqs[r].ctx) :
                      reqs[r].result.val[k] =
                          IF Has(reqs[r].payload, k) /\ WellTyped(reqs[r].ctx, k, reqs[r].payload.v[k])
                          THEN reqs[r].payload.v[k]
                          ELSE NamedDefaults(reqs[r].ctx)[k]

\* the generic career path, as CareerPathStage objects
GenericCareerPath == [i \in 1..4 |-> CareerPathStage(DefaultCareerPath.v[i])]
\* C24: a career detail assembled from a payload that has no career_path
\* key, or has an empty list under it, carries the generic path of four
\* stages (Entry Level, Mid Level, Senior Level, Expert / Director), and no
\* career detail assembled has an empty career_path.
C24_CareerPathNeverEmpty ==
    \A r \in Requests :
        (Done(r) /\ reqs[r].ctx.op = "generate_career_detail")
            => /\ (~Has(reqs[r].payload, "career_path") \/ reqs[r].payload.v["career_path"] = List(<<>>))
                      => (reqs[r].result.ok /\ reqs[r].result.val.career_path = GenericCareerPath)
               /\ reqs[r].result.ok => Len(reqs[r].result.val.career_path) > 0

\* the positions of the elements of a steps list that TransitionStep accepts
Convertible(raw) == {i \in DOMAIN raw : TransitionStepValid(raw[i])}
\* C25: a transition plan assembled from a payload whose steps are a list
\* is returned whatever the elements are: its steps are the elements that
\* TransitionStep accepts, as many as the list holds and in the order the
\* list holds them, and the other elements are left out.
C25_MalformedStepsDropped ==
    \A r \in Requests :
        (Done(r) /\ reqs[r].ctx.op = "generate_transition_plan" /\ Has(reqs[r].payload, "steps"))
            => LET raw == reqs[r].payload.v["steps"].v
                   steps == reqs[r].result.val.steps
               IN  /\ reqs[r].result.ok
                   /\ Len(steps) = Cardinality(Convertible(raw))
                   /\ \A j \in DOMAIN steps :
                          steps[j] = raw[CHOOSE i \in Convertible(raw) :
                                             Cardinality({h \in Convertible(raw) : h < i}) = j - 1]
\* a steps list with a number between two well-formed steps: the plan holds
\* the two steps, in that order
C25_Witness ==
    \E r \in Requests :
        /\ Done(r) /\ reqs[r].ctx.op = "generate_transition_plan"
        /\ LET fb == TransitionFallbackPayload(reqs[r].ctx.source, reqs[r].ctx.target).v["steps"].v
           IN  /\ Has(reqs[r].payload, "steps")
               /\ reqs[r].payload.v["steps"].v = <<fb[2], Num(7), fb[1]>>
               /\ reqs[r].result.ok
               /\ reqs[r].result.val.steps = <<fb[2], fb[1]>>

\* the request's upstream call returned a text, which it parsed
Parsed(r) == Done(r) /\ reqs[r].calls = 1 /\ reqs[r].failure = ""
\* the payload the request took is the decoding of the lines t when they
\* decode, and the fallback payload when they do not
TookDecodingOf(r, t) ==
    IF JsonLoads(t).ok
    THEN ~reqs[r].fallback /\ reqs[r].payload = JsonLoads(t).val
    ELSE reqs[r].fallback /\ reqs[r].payload = FallbackPayload(reqs[r].ctx)
\* C26 (as the code has it): the text is stripped of surrounding
\* whitespace.  A text that does not begin with a fence marker is decoded as
\* it is.  A text that begins with a fence marker loses its first and its
\* last line, whatever the last line contains, and what is left is stripped
\* and decoded: with fewer than three lines nothing is left, and when the
\* document ends on the last line (no closing fence) it is cut, so both take
\* the fallback payload; a document that is complete between the first and
\* the last line is decoded, whether the last line is a closing fence, prose
\* or further JSON.
C26_FencedParse ==
    \A r \in Requests :
        Parsed(r) =>
            LET cleaned == Strip(reqs[r].raw)
                n == Len(cleaned)
            IN  /\ ~StartsWithFence(cleaned) => TookDecodingOf(r, cleaned)
                /\ (StartsWithFence(cleaned) /\ n < 3)
                       => (reqs[r].fallback /\ reqs[r].payload = FallbackPayload(reqs[r].ctx))
                /\ (StartsWithFence(cleaned) /\ n >= 3)
                       => /\ TookDecodingOf(r, SubSeq(cleaned, 2, n - 1))
                          /\ (cleaned[n] = DocPart(OverviewOnly, 2) /\ cleaned[n - 1] = DocPart(OverviewOnly, 1))
                                 => reqs[r].fallback
\* a fence, then a document printed over two lines, and no closing fence:
\* the second line of the document is removed and the fallback is taken
C26_Witness ==
    \E r \in Requests :
        /\ Parsed(r)
        /\ reqs[r].raw = <<Fence, DocPart(OverviewOnly, 1), DocPart(OverviewOnly, 2)>>
        /\ reqs[r].fallback
        /\ reqs[r].payload = FallbackPayload(reqs[r].ctx)
        /\ reqs[r].wrote_at > 0
\* C26 as stated: every text that begins with a fence marker and has fewer
\* than three lines, or whose last line is JSON rather than a closing fence,
\* takes the fallback payload
C26_Original ==
    \A r \in Requests :
        Parsed(r) =>
            LET cleaned == Strip(reqs[r].raw)
            IN  (/\ StartsWithFence(cleaned)
                 /\ (Len(cleaned) < 3 \/ cleaned[Len(cleaned)].k \in {"json", "part"}))
                    => reqs[r].fallback

\* the file holds an entry under the key that a keyed request arriving now
\* would serve
FreshInFile(key) ==
    /\ file.state = "json"
    /\ key \in DOMAIN file.map
    /\ clock - file.map[key].cached_at < CACHE_TTL_SECONDS
\* C27: a request calls the generation client at most once.  The step in
\* which its call ends, with any text or with an exception, ends the request:
\* it is not suspended again and makes no second call, also when the text
\* did not parse.  Whether a keyed request calls the client is decided by the
\* file and the clock alone: if the file loads and holds no fresh entry under
\* the key, the request calls the client, however many requests for the same
\* key are suspended in their own calls; so the requests that missed are as
\* many as the calls made.
C27_OneCallPerRequest ==
    [][/\ \A r \in Requests :
            /\ reqs'[r].calls \in {0, 1}
            /\ (reqs[r].pc = "awaiting" /\ reqs'[r] # reqs[r])
                   => (reqs'[r].pc = "done" /\ reqs'[r].calls = 1)
            /\ reqs[r].pc = "done" => reqs'[r] = reqs[r]
            /\ (reqs[r].pc = "idle" /\ reqs'[r].pc # "idle" /\ reqs'[r].ctx.op \in KeyedOps
                /\ file.state # "undecodable" /\ ~FreshInFile(reqs'[r].key))
                   => (reqs'[r].pc = "awaiting" /\ reqs'[r].calls = 1)
            /\ (reqs[r].pc = "idle" /\ reqs'[r].ctx.op = "generate_article")
                   => (reqs'[r].pc = "awaiting" /\ reqs'[r].calls = 1)
       /\ \A r1, r2 \in Requests :
            (/\ r1 # r2
             /\ reqs'[r1].pc = "awaiting" /\ reqs'[r2].pc = "awaiting"
             /\ reqs'[r1].key = reqs'[r2].key)
                => reqs'[r1].calls + reqs'[r2].calls = 2]_vars
\* two requests for one key missed while both were in flight and each made
\* its own call; the first one's text did not parse and it took the fallback
\* after that single call, the second one's call raised
C27_Witness ==
    \E r1, r2 \in Requests :
        /\ Keyed(r1) /\ Keyed(r2) /\ Overlapping(r1, r2) /\ reqs[r1].key = reqs[r2].key
        /\ r1 \notin reqs[r2].after
        /\ Done(r1) /\ reqs[r1].fallback /\ reqs[r1].calls = 1
        /\ Done(r2) /\ reqs[r2].failure \in ClientErrors /\ reqs[r2].calls = 1

\* the requests the run's service takes
RequestContexts(svc) ==
    IF svc = "article_generator" THEN ArticleContexts \cup GetArticleContexts ELSE ServiceContexts(svc)
\* the request r arrives with the context ctx
Starts(r, ctx) ==
    \/ generate_item_detail_call(r, ctx)
    \/ generate_career_detail_call(r, ctx)
    \/ generate_transition_plan_call(r, ctx)
    \/ generate_article_call(r, ctx)
    \/ get_article(r, ctx)
\* the upstream call of r returns raw, and r runs to its end
Resumes(r, raw) ==
    \/ generate_item_detail_resume(r, raw)
    \/ generate_career_detail_resume(r, raw)
    \/ generate_transition_plan_resume(r, raw)
    \/ \E id \in UUIDS : generate_article_resume(r, raw, id)
\* C28: while a request is suspended in its call to the generation client,
\* the next request can arrive with any context of the service (a hit, or a
\* miss on the same or on another key) and take its first step, and a
\* request that is itself suspended can take its last step as soon as its
\* own call ends, with any text or any exception: no step of a request
\* waits for another request's call.
C28_SuspensionBlocksNobody ==
    \A r1, r2 \in Requests :
        (r1 # r2 /\ reqs[r1].pc = "awaiting")
            => /\ (reqs[r2].pc = "idle" /\ \A q \in 1..(r2 - 1) : reqs[q].pc # "idle")
                      => \A ctx \in RequestContexts(service) : ENABLED Starts(r2, ctx)
               /\ reqs[r2].pc = "awaiting"
                      => /\ \A raw \in Responses : ENABLED Resumes(r2, raw)
                         /\ \A exc \in ClientErrors : ENABLED chat_completion_raises(r2, exc)
\* the first request is still suspended in its call; the second arrived
\* after it for the same key, missed, made its own call, wrote the store and
\* returned its entity
C28_Witness ==
    \E r1, r2 \in Requests :
        /\ reqs[r1].pc = "awaiting" /\ r2 = r1 + 1
        /\ Keyed(r2) /\ Done(r2) /\ reqs[r2].key = reqs[r1].key
        /\ reqs[r2].calls = 1 /\ reqs[r2].result.ok /\ LastWriter(r2)

\* the request generated an article and returned it
Published(r) == Done(r) /\ reqs[r].ctx.op = "generate_article" /\ reqs[r].result.ok
\* the store was written by article generations only (no eviction)
OnlyGenerationsWrote == \A q \in Requests : reqs[q].wrote_at > 0 => reqs[q].ctx.op = "generate_article"
\* C29: generate_article loads the store in the step in which it inserts and
\* saves, after its upstream call, so it writes the file as it is at that
\* moment plus its own entry; when every request is an article generation
\* that succeeded, in whatever order their calls returned, the store holds
\* the entry of each of them.
C29_NoLostArticle ==
    /\ \A r \in Requests :
           (Published(r) /\ reqs[r].wrote_at > 0) => reqs[r].loaded_at = reqs[r].wrote_at - 1
    /\ (OnlyGenerationsWrote /\ \A r \in Requests : Published(r))
           => \A r \in Requests :
                  /\ file.state = "json"
                  /\ reqs[r].key \in DOMAIN file.map
                  /\ file.map[reqs[r].key] = WrittenEntry(r)
\* the same for article generations that drew different ids
PublishedApart ==
    (OnlyGenerationsWrote /\ \A r \in Requests : Published(r)
     /\ \A r1, r2 \in Requests : r1 # r2 => reqs[r1].key # reqs[r2].key)
        => \A r \in Requests :
               /\ file.state = "json"
               /\ reqs[r].key \in DOMAIN file.map
               /\ file.map[reqs[r].key] = WrittenEntry(r)

\* the seed data hold an entity for what the request asked for
KnownEntity(ctx) ==
    IF ctx.op \in {"get_item_detail", "generate_item_detail"}
    THEN \E i \in ALL_ITEMS : i.id = ctx.item_id /\ i.category = ctx.category
    ELSE \E pr \in PROFESSIONS : pr.id = ctx.profession_id
\* C30: a request for the detail of an item whose id is not in the seed
\* data, or is there under another category than the one requested, and a
\* request for the career detail of an unknown profession id, is answered
\* 404 in the step in which it arrives: the store is not loaded, the
\* generation client is not called, and the file is as before.  Every other
\* request enters the service with the seed entity of that id.
C30_UnknownIdNotFound ==
    [][\A r \in Requests :
          (reqs[r].pc = "idle" /\ reqs'[r].pc # "idle")
              => LET q == reqs'[r]
                 IN  IF ~KnownEntity(q.ctx)
                     THEN /\ q.pc = "done"
                          /\ q.response.status = 404
                          /\ q.calls = 0
                          /\ ~q.loaded /\ q.saw = "nothing"
                          /\ file' = file /\ nsaves' = nsaves
                     ELSE /\ q.response.status # 404
                          /\ q.saw = file.state
                          /\ q.ctx.op = "generate_item_detail"
                                 => (q.ctx.item \in ALL_ITEMS /\ q.ctx.item.id = q.ctx.item_id
                                     /\ q.ctx.item.category = q.ctx.category)
                          /\ q.ctx.op = "generate_career_detail"
                                 => (q.ctx.profession \in PROFESSIONS /\ q.ctx.profession.id = q.ctx.profession_id)]_vars
\* an item of the evals category requested under guardrails while the store
\* holds no entry for it: 404, no call, and the store still has no entry
C30_Witness ==
    \E r \in Requests :
        /\ Done(r) /\ reqs[r].ctx.op = "get_item_detail"
        /\ reqs[r].ctx.item_id = "groundedness" /\ reqs[r].ctx.category = Category_GUARDRAILS
        /\ reqs[r].response.status = 404
        /\ reqs[r].calls = 0 /\ ~reqs[r].loaded
        /\ nsaves = 0 /\ file = SeedFile(service)

\* C31: get_article changes the store only to evict.  In the step in which
\* get_article(id) runs: when the store holds no entry for id (the file is
\* absent, is not JSON, or is a mapping without id) it returns None and the
\* file is as before; when the entry's age is within the TTL it returns the
\* article stored under id and the file is as before; when the entry's age is
\* beyond the TTL it returns None and the file becomes the mapping without
\* id, every other entry as it was, so that a get_article for id that reads
\* this file finds no entry.  On a file that cannot be decoded it raises and
\* writes nothing.
C31_GetArticleOnlyEvicts ==
    [][\A r \in Requests :
          (reqs[r].pc = "idle" /\ reqs'[r].ctx.op = "get_article")
              => LET q == reqs'[r]
                     id == q.ctx.article_id
                     untouched == file' = file /\ nsaves' = nsaves /\ q.wrote_at = 0
                 IN  IF file.state = "undecodable" THEN ~q.result.ok /\ untouched
                     ELSE IF file.state \in {"missing", "corrupt"} THEN q.result = Ok(None) /\ untouched
                     ELSE IF id \notin DOMAIN file.map THEN q.result = Ok(None) /\ untouched
                     ELSE IF clock - file.map[id].cached_at > CACHE_TTL_SECONDS
                     THEN /\ q.result = Ok(None)
                          /\ file'.state = "json"
                          /\ DOMAIN file'.map = (DOMAIN file.map) \ {id}
                          /\ \A k \in DOMAIN file'.map : file'.map[k] = file.map[k]
                          /\ nsaves' = nsaves + 1
                     ELSE /\ q.result.ok /\ q.result.val # None
                          /\ Obj(q.result.val) = file.map[id].data
                          /\ q.result.val.id = Str(id)
                          /\ untouched]_vars
\* the first get_article found the seeded article expired and evicted it;
\* the second, for the same id, found no entry, returned None and wrote
\* nothing
C31_Witness ==
    \E r1, r2 \in Requests :
        /\ Successive(r1, r2)
        /\ reqs[r1].ctx.op = "get_article" /\ reqs[r2].ctx = reqs[r1].ctx
        /\ reqs[r1].stale /\ reqs[r1].result = Ok(None) /\ reqs[r1].wrote_at = 1
        /\ reqs[r2].loaded /\ reqs[r2].key \notin DOMAIN reqs[r2].cache
        /\ ~reqs[r2].stale /\ reqs[r2].result = Ok(None) /\ reqs[r2].wrote_at = 0
        /\ reqs[r2].response.status = 404
        /\ nsaves = 1 /\ file = JsonFile(NoEntries)

\* C32: list_articles applies no TTL and evicts nothing.  In the step in
\* which it runs on a store that loads, it returns one summary for every
\* entry of the file, whatever the entry's age, each with the id, topic,
\* title and created_at of the stored article, newest first, and the file is
\* as before.  So an expired article is listed as long as no get_article has
\* evicted it, and a get_article for an id just listed can answer not found.
C32_ListIgnoresAge ==
    [][\A r \in Requests :
          (reqs[r].pc = "idle" /\ reqs'[r].ctx.op = "list_articles")
              => LET q == reqs'[r]
                     m == IF file.state = "json" THEN file.map ELSE NoEntries
                 IN  /\ file' = file /\ nsaves' = nsaves /\ q.wrote_at = 0
                     /\ file.state # "undecodable"
                            => /\ q.result.ok
                               /\ Len(q.result.val) = Cardinality(DOMAIN m)
                               /\ \A k \in DOMAIN m :
                                      \E i \in DOMAIN q.result.val :
                                          /\ q.result.val[i].id = Str(k)
                                          /\ \A f \in {"id", "topic", "title", "created_at"} :
                                                 q.result.val[i][f] = m[k].data.v[f]
                               /\ \A i, j \in DOMAIN q.result.val :
                                      i < j => q.result.val[i].created_at.iso >= q.result.val[j].created_at.iso
                               /\ q.response.status = 200]_vars
\* the seeded article, older than the TTL, was listed by the first request
\* and the file kept it; the second request, a get_article for the id the
\* list reported, was answered 404 and evicted it
C32_Witness ==
    \E r1, r2 \in Requests :
        /\ Done(r1) /\ Done(r2) /\ r2 = r1 + 1
        /\ reqs[r1].ctx.op = "list_articles"
        /\ reqs[r1].result.ok /\ Len(reqs[r1].result.val) = 1
        /\ reqs[r1].result.val[1].id = Str(SeedArticleId)
        /\ reqs[r1].at - reqs[r1].cache[SeedArticleId].cached_at > CACHE_TTL_SECONDS
        /\ reqs[r2].ctx = [op |-> "get_article", article_id |-> SeedArticleId]
        /\ reqs[r2].loaded_at = 0 /\ reqs[r2].cache = reqs[r1].cache
        /\ reqs[r2].stale /\ reqs[r2].result = Ok(None) /\ reqs[r2].response.status = 404
        /\ file = JsonFile(NoEntries)

\* the region whose entry a request for this region string uses: the string
\* in lower case when that is a known region, the default region when the
\* string is empty or unknown
RegionEntryOf(region) ==
    IF region # "" /\ Lower(region) \in REGION_CONTEXT THEN Lower(region) ELSE "usa"
\* C33: generate_career_detail looks up and writes the entry of the
\* normalized region.  A request's key names the profession and the region in
\* lower case, or 'usa' when the region is empty or unknown; a hit serves the
\* entry the loaded store holds under that key, a miss that completes writes
\* its new entry under that key.  So requests whose regions differ only in
\* letter case have the same key, and a 'usa' and an 'india' request for the
\* same profession have different keys and neither is served the other's
\* entry.
C33_RegionNormalizedBeforeKey ==
    /\ \A r \in Requests :
           reqs[r].ctx.op = "generate_career_detail"
               => LET q == reqs[r]
                      key == q.ctx.profession.id \o "__" \o RegionEntryOf(q.ctx.region)
                  IN  /\ q.key = key
                      /\ q.hit => /\ key \in DOMAIN q.cache
                                  /\ q.result = HitResult(q.ctx, q.cache[key].data)
                      /\ ~q.hit /\ q.loaded => q.calls = 1
                      /\ (q.wrote_at > 0 /\ LastWriter(r)) => FileIsWith(q.cache, key, WrittenEntry(r))
    /\ \A r1, r2 \in Requests :
           (reqs[r1].ctx.op = "generate_career_detail" /\ reqs[r2].ctx.op = "generate_career_detail"
            /\ reqs[r1].ctx.profession = reqs[r2].ctx.profession)
               => /\ Lower(reqs[r1].ctx.region) = Lower(reqs[r2].ctx.region) => reqs[r1].key = reqs[r2].key
                  /\ (Lower(reqs[r1].ctx.region) = "usa" /\ Lower(reqs[r2].ctx.region) = "india")
                         => /\ reqs[r1].key # reqs[r2].key
                            /\ (reqs[r1].loaded /\ DOMAIN reqs[r1].cache \subseteq {reqs[r2].key}) => ~reqs[r1].hit
                            /\ (reqs[r2].loaded /\ DOMAIN reqs[r2].cache \subseteq {reqs[r1].key}) => ~reqs[r2].hit
\* on an absent store the first request, region 'INDIA', missed and wrote the
\* india entry; the second, region 'uk', found only that entry, missed as
\* well and wrote the usa entry next to it
C33_Witness ==
    \E r1, r2 \in Requests :
        /\ Done(r1) /\ Done(r2) /\ r1 \in reqs[r2].after
        /\ reqs[r1].ctx.region = "INDIA" /\ reqs[r2].ctx.region = "uk"
        /\ reqs[r1].saw = "missing" /\ reqs[r1].wrote_at = 1
        /\ DOMAIN reqs[r2].cache = {"software-engineer__india"}
        /\ ~reqs[r2].hit /\ reqs[r2].calls = 1 /\ reqs[r2].wrote_at = 2
        /\ file.state = "json" /\ DOMAIN file.map = {"software-engineer__india", "software-engineer__usa"}

\* C34: generate_career_image writes only after the provider call and the
\* download both succeeded.  The directory changes only in the step in which
\* a request's download returns, and then only by the file at that request's
\* path.  A request that ended in a failure (the provider raised, returned
\* no URL, or the download failed) wrote nothing; if no other request has
\* written since it looked, no file is at its path, and a request that
\* arrives then calls the provider again.  Every request that found no file
\* at its path called the provider, whatever other requests were in flight,
\* and every one of them whose download returned wrote the file.
C34_ImageWrittenAfterDownload ==
    /\ [][file' # file
            => \E r \in Requests :
                   /\ reqs[r].pc = "downloading" /\ reqs[r].calls = 1
                   /\ reqs'[r].pc = "done" /\ reqs'[r].result = Ok(Path(reqs[r].key))
                   /\ DOMAIN file'.map = (DOMAIN file.map) \cup {reqs[r].key}
                   /\ file'.map[reqs[r].key].content = reqs'[r].payload
                   /\ \A p \in (DOMAIN file.map) \ {reqs[r].key} : file'.map[p] = file.map[p]]_vars
    /\ [](\A r \in Requests :
             /\ (Done(r) /\ ~reqs[r].result.ok)
                    => /\ reqs[r].wrote_at = 0
                       /\ reqs[r].calls = 1
                       /\ nsaves = reqs[r].loaded_at => reqs[r].key \notin DOMAIN file.map
                       /\ \A r2 \in Requests :
                              (reqs[r2].pc # "idle" /\ r \in reqs[r2].after /\ reqs[r2].key = reqs[r].key
                               /\ reqs[r2].loaded_at = reqs[r].loaded_at)
                                  => (~reqs[r2].hit /\ reqs[r2].calls = 1)
             /\ (reqs[r].pc # "idle" /\ reqs[r].key \notin DOMAIN reqs[r].cache)
                    => /\ reqs[r].calls = 1
                       /\ (Done(r) /\ reqs[r].result.ok) => reqs[r].wrote_at > 0)
\* two requests for the same profession both found no image, both called
\* the provider and both downloads returned: two writes, and the file holds
\* the bytes of the later one
C34_Witness ==
    \E r1, r2 \in Requests :
        /\ r1 # r2 /\ Done(r1) /\ Done(r2)
        /\ reqs[r1].key = reqs[r2].key
        /\ reqs[r1].key \notin DOMAIN reqs[r1].cache /\ reqs[r2].key \notin DOMAIN reqs[r2].cache
        /\ reqs[r1].calls = 1 /\ reqs[r2].calls = 1
        /\ reqs[r1].wrote_at = 1 /\ reqs[r2].wrote_at = 2
        /\ reqs[r1].payload # reqs[r2].payload
        /\ nsaves = 2 /\ file.map[reqs[r2].key].content = reqs[r2].payload

\* the count of writes of the file when the call c of clear_cache returned
ClearMark(c) == IF reqs[c].wrote_at > 0 THEN reqs[c].wrote_at ELSE reqs[c].loaded_at
MappingSaved(r) ==
    [k \in (DOMAIN reqs[r].cache) \cup {reqs[r].key} |->
        IF k = reqs[r].key THEN [cached_at |-> clock, data |-> reqs'[r].payload] ELSE reqs[r].cache[k]]
\* C36 as stated: whatever the file held (nothing, a mapping, text that is
\* not JSON) and whatever the mapping m, save(m) returns and a load of the
\* file right after it gives exactly m, so nothing of the previous content is
\* left unless m holds it.  Checked at every save a keyed request makes.
C36_SaveThenLoad ==
    [][\A r \in Requests :
          (reqs[r].pc = "awaiting" /\ reqs'[r].wrote_at > 0)
              => /\ reqs'[r].result # Raise("UnicodeEncodeError")
                 /\ _load_cache(file') = Ok(MappingSaved(r))]_vars
\* what holds of the code: the same for every mapping whose strings can all
\* be encoded as UTF-8
EncodableSaveThenLoad ==
    [][\A r \in Requests :
          (reqs[r].pc = "awaiting" /\ reqs'[r].wrote_at > 0
           /\ \A k \in DOMAIN MappingSaved(r) : Encodable(MappingSaved(r)[k].data))
              => /\ reqs'[r].result # Raise("UnicodeEncodeError")
                 /\ file' = JsonFile(MappingSaved(r))
                 /\ _load_cache(file') = Ok(MappingSaved(r))]_vars

====
